---- MODULE Spec2Model ----
(***************************************************************************)
(* BrainMaze: maze generation, validation, dead-end looping and A*         *)
(* pathfinding, modelled from src/src/systems and src/src/ai.              *)
(*                                                                         *)
(* A grid is a function grid[y][x] over 0..n-1 holding WALL or PATH, as    *)
(* the source's list of rows.  A position is a pair <<x, y>>.              *)
(***************************************************************************)
EXTENDS Integers, Sequences, FiniteSets, TLC

\* ------------------------------------------------------------------------
\* Bounds of the model
\* ------------------------------------------------------------------------
\* side length of the grids handed to the looper, the validator and A*
GridN == 4
\* a grid handed to them has at most MaxSparse WALL cells or at most
\* MaxSparse PATH cells
MaxSparse == 3
\* the same bound for the grids of the termination check
MaxSparseLive == 2

\* side length and sparseness of the grids handed to MazeValidator
ValN == 3
ValSparse == 3

\* the generators are run on grids of the odd side length 2 * GenHalf + 1
GenHalf == 3
\* MazeType1(min_wall_length, max_wall_length): the wall lengths drawn
min_wall_length == 1
max_wall_length == 2

\* Maze(grid_size, tile_size): the grid size handed to the constructor
grid_size_arg == 6
\* the side of the grids AStarPathfinder.find_path is called on
AStarN == 3
\* the largest number of walls in those grids
AStarWalls == 2
\* the side of the mazes find_path is called across, from the top row to
\* the bottom row
DetourN == 8
\* the side of the grids find_nearest_walkable_tile is called on
NearN == 3
\* the largest number of walls, or of open tiles, in those grids
NearSparse == 2
\* the largest max_search_radius of the calls
MaxRadius == 3
\* the side of the grids an enemy walks on
EnemyN == 2
\* the largest number of walls, or of open tiles, in those grids
EnemySparse == 1
\* the side of the grids an enemy is driven over by Enemy.update alone
WalkN == 3
\* the largest number of walls in those grids
WalkWalls == 2
\* the side of the grids is_wall and can_move_to are asked about
QueryN == 2
\* the largest number of walls, or of open tiles, in those grids
QuerySparse == 1
\* how far outside the grid the coordinates of the queries reach
QueryMargin == 1
\* the side of the grids a patrol is constructed on
WaypointN == 9
\* the largest number of walls, or of open tiles, in those grids
WaypointSparse == 1
\* the mirrored grids handed to MazeLooper have the odd side 2 * MirrorHalf + 1
MirrorHalf == 2
\* the largest number of walls in the left half, centre column included, of
\* those grids
MirrorWalls == 2

\* ------------------------------------------------------------------------
\* Constants of the source
\* ------------------------------------------------------------------------
WALL == 1
PATH == 0
None == "None"
\* the value that stands for None where a tile is expected
NoTile == <<>>
\* the value that stands for None where a list of directions is expected
NoPath == <<None>>
INTERNAL_WALL == 0
INTERNAL_CORRIDOR == 1

\* the configuration read by Maze.__init__ (section 'Generation'):
\* fill_target as the fraction fill_target_num / fill_target_den,
\* chamber_min_size, chamber_max_size, corridor_length_min,
\* corridor_length_max and max_attempts.  No number of corridor cells
\* equals fill_target times the number of cells of the 7 x 7 grid, so the
\* comparison of the source's floats is the comparison of the fractions.
fill_target_num == 9
fill_target_den == 25
chamber_min == 2
chamber_max == 3
corridor_len_min == 1
corridor_len_max == 2
generation_attempts == 2
\* Maze._carve_corridors, line 129: the cap on the iterations of its loop.
\* With the configuration above every pattern carved from the chambers of
\* size 2 reaches the fill target, so the loop never runs a second time
max_iterations == 10000

\* neighbour order of MazeLooper, MazeValidator and Maze: N, E, S, W
Dirs4 == << <<0, -1>>, <<1, 0>>, <<0, 1>>, <<-1, 0>> >>

VARIABLES
    lgrid,      \* MazeLooper: maze.grid
    lpc,        \* MazeLooper: position in remove_dead_ends
    ldead,      \* MazeLooper: dead ends of the current pass not yet handled
    lcalls,     \* MazeLooper: number of calls of remove_dead_ends started
    lgrid0,     \* MazeLooper: the grid as it was handed to the first call
    lsnap,      \* MazeLooper: the grid as the first call returned it
    vgrid,      \* MazeValidator: self.grid
    vpc,        \* MazeValidator: the method that was called
    vstart,     \* MazeValidator: argument start / start_pos of the call
    vend,       \* MazeValidator: argument end of the call
    vres,       \* MazeValidator: value returned by the call
    gtype,      \* generators: which of MazeType1..MazeType4 runs
    gvert,      \* generators: orientation == 'vertical'
    ggrid,      \* generators: the grid under construction
    gpc,        \* generators: position in generate
    gloc,       \* generators: the local variables of the running loop
    mpc,        \* Maze: position in _generate
    mattempt,   \* Maze: attempt, the loop variable of _generate
    minternal,  \* Maze: internal_grid of the running attempt
    miter,      \* Maze: iterations of _carve_corridors
    mgrid,      \* Maze: self.grid
    mstart,     \* Maze: self.start_pos
    mend,       \* Maze: self.end_pos
    agrid,      \* AStarPathfinder: maze.grid
    astart,     \* find_path: start
    agoal,      \* find_path: goal
    apc,        \* find_path: position in the function
    open_set,   \* find_path: the heap, as the set of its entries
    counter,    \* find_path: counter
    came_from,  \* find_path: came_from
    g_score,    \* find_path: g_score
    f_score,    \* find_path: f_score
    open_set_positions,  \* find_path: open_set_positions
    aresult,    \* find_path: the returned value
    ngrid,      \* find_nearest_walkable_tile: maze.grid
    ntarget,    \* find_nearest_walkable_tile: (target_x, target_y)
    nradius,    \* find_nearest_walkable_tile: max_search_radius
    npc,        \* find_nearest_walkable_tile: called or returned
    nresult,    \* find_nearest_walkable_tile: the returned value
    egrid,      \* Enemy: collision_manager.maze.grid
    etile,      \* Enemy: (tile_x, tile_y)
    update_interval,  \* Enemy: update_interval
    frame_counter,    \* Enemy: frame_counter
    btype,      \* Enemy: the class of self.behavior
    waypoints,  \* PatrolBehavior: waypoints
    current_waypoint_index,  \* PatrolBehavior: current_waypoint_index
    current_waypoint,        \* WandererBehavior: current_waypoint
    cached_path,  \* behaviour: cached_path
    path_index,   \* behaviour: path_index
    bret,       \* behaviour: the value update returned last
    btarget,    \* behaviour: (target_x, target_y) of the last call of update
    qgrid,      \* Maze queries: maze.grid
    qfrom,      \* Maze queries: (from_x, from_y)
    qto,        \* Maze queries: (to_x, to_y), the (x, y) of is_wall
    qpc,        \* Maze queries: which query returned
    qwall,      \* Maze queries: the value is_wall returned
    qmove,      \* Maze queries: the value can_move_to returned
    pgrid,      \* PatrolBehavior.__init__: maze.grid
    ppc,        \* PatrolBehavior.__init__: new or constructed
    pwaypoints  \* PatrolBehavior.__init__: waypoints

lvars == <<lgrid, lpc, ldead, lcalls, lgrid0, lsnap>>
vvars == <<vgrid, vpc, vstart, vend, vres>>
gvars == <<gtype, gvert, ggrid, gpc, gloc>>
nvars == <<ngrid, ntarget, nradius, npc, nresult>>
avars == <<agrid, astart, agoal, apc, open_set, counter, came_from, g_score,
           f_score, open_set_positions, aresult>>
mvars == <<mpc, mattempt, minternal, miter, mgrid, mstart, mend>>
evars == <<egrid, etile, update_interval, frame_counter, btype, waypoints,
           current_waypoint_index, current_waypoint, cached_path, path_index,
           bret, btarget>>
qvars == <<qgrid, qfrom, qto, qpc, qwall, qmove>>
pvars == <<pgrid, ppc, pwaypoints>>
vars == <<lvars, vvars, gvars, mvars, avars, nvars, evars, qvars, pvars>>

\* ------------------------------------------------------------------------
\* Helpers on grids
\* ------------------------------------------------------------------------
Add(p, d) == <<p[1] + d[1], p[2] + d[2]>>

Cells(n) == (0..(n-1)) \X (0..(n-1))

\* the positions of a set of cell numbers (row-major, y * n + x)
CellOf(n, i) == <<i % n, i \div n>>

RECURSIVE SubsetsUpTo(_, _, _)
\* all sets of at most k numbers drawn from lo..hi
SubsetsUpTo(k, lo, hi) ==
    IF k = 0 \/ lo > hi THEN {{}}
    ELSE {{}} \cup UNION { { {i} \cup s : s \in SubsetsUpTo(k - 1, i + 1, hi) } : i \in lo..hi }

\* the n x n grid whose cells in S hold a and all others b
GridWith(n, S, a, b) ==
    [y \in 0..(n-1) |-> [x \in 0..(n-1) |-> IF (y * n + x) \in S THEN a ELSE b]]

\* the sparse n x n grids: few walls in an open field, or few open cells
SparseGrids(n, k) ==
    { GridWith(n, S, WALL, PATH) : S \in SubsetsUpTo(k, 0, n * n - 1) }
    \cup { GridWith(n, S, PATH, WALL) : S \in SubsetsUpTo(k, 0, n * n - 1) }

\* ------------------------------------------------------------------------
\* Reference notions the claims are stated with (not code)
\* ------------------------------------------------------------------------
InBounds(n, p) == p[1] >= 0 /\ p[1] < n /\ p[2] >= 0 /\ p[2] < n

IsPathCell(g, n, p) == InBounds(n, p) /\ g[p[2]][p[1]] = PATH

PathNeighbours(g, n, p) == { q \in { Add(p, Dirs4[i]) : i \in 1..4 } : IsPathCell(g, n, q) }

RECURSIVE Closure(_, _, _)
\* the cells reachable from the set R by steps that only enter PATH cells
Closure(g, n, R) ==
    CHOOSE r \in { IF R2 = R THEN R ELSE Closure(g, n, R2) :
                     R2 \in { R \cup UNION { PathNeighbours(g, n, p) : p \in R } } } : TRUE

Reach(g, n, p) == Closure(g, n, {p})

PathCells(g, n) == { p \in Cells(n) : g[p[2]][p[1]] = PATH }

\* all PATH cells are mutually reachable
MutuallyReachable(g, n) ==
    \A p \in PathCells(g, n) : PathCells(g, n) \subseteq Reach(g, n, p)

\* a PATH cell with exactly one in-bounds orthogonal PATH neighbour
IsDeadEnd(g, n, p) == IsPathCell(g, n, p) /\ Cardinality(PathNeighbours(g, n, p)) = 1

\* ------------------------------------------------------------------------
\* MazeLooper (src/src/systems/maze_looper.py)
\* ------------------------------------------------------------------------
\* Maze.is_wall: out of bounds counts as a wall
is_wall(g, n, x, y) ==
    IF ~(0 <= x /\ x < n /\ 0 <= y /\ y < n) THEN TRUE ELSE g[y][x] = WALL

_is_valid_grid_cell(n, x, y) == 0 <= x /\ x < n /\ 0 <= y /\ y < n

\* the row-major scan: positions <<x, y>> for y, then x
ScanOrder(n) == [i \in 1..(n * n) |-> CellOf(n, i - 1)]

open_count(g, n, x, y) ==
    Cardinality({ i \in 1..4 :
        /\ _is_valid_grid_cell(n, x + Dirs4[i][1], y + Dirs4[i][2])
        /\ ~is_wall(g, n, x + Dirs4[i][1], y + Dirs4[i][2]) })

\* _find_dead_ends with the row loop stopping one row early
_find_dead_ends_short(g, n) ==
    SelectSeq(ScanOrder(n),
              LAMBDA p : p[2] < n - 1 /\ ~is_wall(g, n, p[1], p[2])
                         /\ open_count(g, n, p[1], p[2]) = 1)

_find_dead_ends(g, n) ==
    SelectSeq(ScanOrder(n),
              LAMBDA p : ~is_wall(g, n, p[1], p[2]) /\ open_count(g, n, p[1], p[2]) = 1)

\* the body of the while loop of _path_distance after the popleft: the
\* unvisited non-wall neighbours are marked and appended with dist + 1
PathDistanceStep(g, n, queue, visited) ==
    LET pos  == Head(queue)[1]
        dist == Head(queue)[2]
        new  == SelectSeq([i \in 1..4 |-> Add(pos, Dirs4[i])], LAMBDA q :
                    /\ _is_valid_grid_cell(n, q[1], q[2])
                    /\ ~is_wall(g, n, q[1], q[2])
                    /\ q \notin visited)
    IN  << Tail(queue) \o [i \in 1..Len(new) |-> <<new[i], dist + 1>>],
           visited \cup { new[i] : i \in 1..Len(new) } >>

RECURSIVE PathDistanceLoop(_, _, _, _, _)
\* the while loop of _path_distance: queue of <<position, dist>>
\* (the next iteration's state is bound as a value before the loop goes on)
PathDistanceLoop(g, n, queue, visited, end) ==
    IF queue = <<>> THEN -1
    ELSE IF Head(queue)[1] = end THEN Head(queue)[2]
    ELSE CHOOSE r \in { PathDistanceLoop(g, n, st[1], st[2], end) :
                            st \in { PathDistanceStep(g, n, queue, visited) } } : TRUE

_path_distance(g, n, start, end) ==
    PathDistanceLoop(g, n, << <<start, 0>> >>, {start}, end)

\* a direction is a candidate when the adjacent cell is an in-bounds wall
\* and the cell beyond it is an in-bounds non-wall
IsLoopCandidate(g, n, pos, d) ==
    LET wx == pos[1] + d[1]
        wy == pos[2] + d[2]
        bx == wx + d[1]
        by == wy + d[2]
    IN  /\ _is_valid_grid_cell(n, wx, wy)
        /\ is_wall(g, n, wx, wy)
        /\ _is_valid_grid_cell(n, bx, by)
        /\ ~is_wall(g, n, bx, by)

RECURSIVE LongestCycleLoop(_, _, _, _, _, _)
\* the for loop of _find_longest_cycle_wall from direction i on
LongestCycleLoop(g, n, pos, i, best_direction, max_distance) ==
    IF i > 4 THEN best_direction
    ELSE LET d == Dirs4[i]
             distance == _path_distance(g, n, pos, Add(Add(pos, d), d))
         IN  IF IsLoopCandidate(g, n, pos, d) /\ distance > max_distance
             THEN LongestCycleLoop(g, n, pos, i + 1, d, distance)
             ELSE LongestCycleLoop(g, n, pos, i + 1, best_direction, max_distance)

_find_longest_cycle_wall(g, n, pos) == LongestCycleLoop(g, n, pos, 1, None, -1)

SetCell(g, x, y, v) == [g EXCEPT ![y][x] = v]

\* self.maze.grid_size: the side of the grid the looper was given
maze_grid_size(g) == Cardinality(DOMAIN g)

\* remove_dead_ends, lines 11-13: scan; leave the loop when no dead end is found
LooperScan ==
    /\ lpc = "scan"
    /\ LET dead_ends == _find_dead_ends(lgrid, maze_grid_size(lgrid))
       IN  IF dead_ends = <<>>
           THEN /\ lpc' = "done"
                /\ ldead' = <<>>
                /\ lsnap' = IF lcalls = 1 THEN lgrid ELSE lsnap
           ELSE /\ lpc' = "fix"
                /\ ldead' = dead_ends
                /\ lsnap' = lsnap
    /\ UNCHANGED <<lgrid, lcalls, lgrid0, vvars, gvars, mvars, avars, nvars, evars, qvars, pvars>>

\* variant of the for loop's iteration that walls up the dead end instead of
\* carving the wall
LooperFix_fill_dead_end ==
    /\ lpc = "fix"
    /\ ldead # <<>>
    /\ LET dead_end  == Head(ldead)
           best_wall == _find_longest_cycle_wall(lgrid, maze_grid_size(lgrid), dead_end)
       IN  lgrid' = IF best_wall # None
                    THEN SetCell(lgrid, dead_end[1], dead_end[2], WALL)
                    ELSE lgrid
    /\ ldead' = Tail(ldead)
    /\ lpc' = IF Tail(ldead) = <<>> THEN "scan" ELSE "fix"
    /\ UNCHANGED <<lcalls, lgrid0, lsnap, vvars, gvars, mvars, avars, nvars, evars, qvars, pvars>>

\* remove_dead_ends, lines 15-20: one iteration of the for loop
LooperFix ==
    /\ lpc = "fix"
    /\ ldead # <<>>
    /\ LET dead_end  == Head(ldead)
           best_wall == _find_longest_cycle_wall(lgrid, maze_grid_size(lgrid), dead_end)
       IN  lgrid' = IF best_wall # None
                    THEN SetCell(lgrid, dead_end[1] + best_wall[1], dead_end[2] + best_wall[2], PATH)
                    ELSE lgrid
    /\ ldead' = Tail(ldead)
    /\ lpc' = IF Tail(ldead) = <<>> THEN "scan" ELSE "fix"
    /\ UNCHANGED <<lcalls, lgrid0, lsnap, vvars, gvars, mvars, avars, nvars, evars, qvars, pvars>>

\* a second call of remove_dead_ends on the grid the first call returned
LooperCallAgain ==
    /\ lpc = "done"
    /\ lcalls = 1
    /\ lcalls' = 2
    /\ lpc' = "scan"
    /\ UNCHANGED <<lgrid, ldead, lgrid0, lsnap, vvars, gvars, mvars, avars, nvars, evars, qvars, pvars>>

\* the state of the enemy while another component is exercised
EnemyIdle ==
    /\ egrid = <<>>
    /\ etile = None
    /\ update_interval = 0
    /\ frame_counter = 0
    /\ btype = None
    /\ waypoints = <<>>
    /\ current_waypoint_index = 0
    /\ current_waypoint = NoTile
    /\ cached_path = NoPath
    /\ path_index = 0
    /\ bret = None
    /\ btarget = NoTile

\* the state of the maze queries while another component is exercised
QueryIdle ==
    /\ qgrid = <<>>
    /\ qfrom = None
    /\ qto = None
    /\ qpc = "idle"
    /\ qwall = None
    /\ qmove = None

\* the state of the patrol construction while another component is exercised
WaypointsIdle ==
    /\ pgrid = <<>>
    /\ ppc = "idle"
    /\ pwaypoints = <<>>

\* the state of find_nearest_walkable_tile while another component is exercised
NearestIdle ==
    /\ ngrid = <<>>
    /\ ntarget = None
    /\ nradius = 0
    /\ npc = "idle"
    /\ nresult = None

\* the state of the pathfinder while another component is exercised
AStarIdle ==
    /\ agrid = <<>>
    /\ astart = None
    /\ agoal = None
    /\ apc = "idle"
    /\ open_set = {}
    /\ counter = 0
    /\ came_from = <<>>
    /\ g_score = <<>>
    /\ f_score = <<>>
    /\ open_set_positions = {}
    /\ aresult = None

\* the state of Maze while another component is exercised
MazeIdle ==
    /\ mpc = "idle"
    /\ mattempt = 0
    /\ minternal = <<>>
    /\ miter = 0
    /\ mgrid = <<>>
    /\ mstart = None
    /\ mend = None

\* the state of the generators while another component is exercised
GeneratorIdle ==
    /\ gtype = 0
    /\ gvert = TRUE
    /\ ggrid = <<>>
    /\ gpc = "idle"
    /\ gloc = <<>>

\* the state of the validator while another component is exercised
ValidatorIdle ==
    /\ vgrid = <<>>
    /\ vpc = "idle"
    /\ vstart = None
    /\ vend = None
    /\ vres = None

LooperInit ==
    /\ NearestIdle
    /\ AStarIdle
    /\ EnemyIdle
    /\ QueryIdle
    /\ WaypointsIdle
    /\ MazeIdle
    /\ ValidatorIdle
    /\ GeneratorIdle
    /\ lgrid \in SparseGrids(GridN, MaxSparse)
    /\ lgrid0 = lgrid
    /\ lsnap = lgrid
    /\ lpc = "scan"
    /\ ldead = <<>>
    /\ lcalls = 1

\* a smaller family of grids for the termination check
LooperInitLive ==
    /\ NearestIdle
    /\ AStarIdle
    /\ EnemyIdle
    /\ QueryIdle
    /\ WaypointsIdle
    /\ MazeIdle
    /\ ValidatorIdle
    /\ GeneratorIdle
    /\ lgrid \in SparseGrids(GridN, MaxSparseLive)
    /\ lgrid0 = lgrid
    /\ lsnap = lgrid
    /\ lpc = "scan"
    /\ ldead = <<>>
    /\ lcalls = 1

LooperNext == LooperScan \/ LooperFix \/ LooperCallAgain

SpecLooper == LooperInit /\ [][LooperNext]_vars

\* the looper on left-right mirrored grids of odd side
MirrorN == 2 * MirrorHalf + 1

\* the grid with walls at the cells of its left half, centre column
\* included, numbered in S, and at their mirror images
MirroredGridWith(n, S) ==
    LET h == n \div 2 + 1
    IN  [y \in 0..(n - 1) |-> [x \in 0..(n - 1) |->
            IF (y * h + (IF x < h THEN x ELSE n - 1 - x)) \in S THEN WALL ELSE PATH]]

MirroredGrids(n, k) ==
    { MirroredGridWith(n, S) : S \in SubsetsUpTo(k, 0, n * (n \div 2 + 1) - 1) }

MirrorLooperInit ==
    /\ NearestIdle
    /\ AStarIdle
    /\ EnemyIdle
    /\ QueryIdle
    /\ WaypointsIdle
    /\ MazeIdle
    /\ ValidatorIdle
    /\ GeneratorIdle
    /\ lgrid \in MirroredGrids(MirrorN, MirrorWalls)
    /\ lgrid0 = lgrid
    /\ lsnap = lgrid
    /\ lpc = "scan"
    /\ ldead = <<>>
    /\ lcalls = 1

SpecMirrorLooper == MirrorLooperInit /\ [][LooperNext]_vars

\* the loop of remove_dead_ends is never suspended: it runs while it can
FairSpecLooper == LooperInitLive /\ [][LooperNext]_vars /\ WF_vars(LooperNext)

\* ------------------------------------------------------------------------
\* MazeValidator (src/src/systems/maze_validator.py)
\* ------------------------------------------------------------------------
_is_valid_path(g, n, x, y) ==
    0 <= x /\ x < n /\ 0 <= y /\ y < n /\ g[y][x] # WALL

\* the neighbours of pos in the order N, E, S, W
Neighbours4(pos) == [i \in 1..4 |-> Add(pos, Dirs4[i])]

\* the unvisited valid-path neighbours of pos, in order
UnvisitedPaths(g, n, pos, visited) ==
    SelectSeq(Neighbours4(pos), LAMBDA q : _is_valid_path(g, n, q[1], q[2]) /\ q \notin visited)

SeqToSet(s) == { s[i] : i \in 1..Len(s) }

\* is_connected, lines 22-28: one popleft and its for loop; the result is
\* <<returned True, queue, visited>>.  A neighbour equal to end returns True
\* before it is tested for being a valid path.
IsConnectedStep(g, n, queue, visited, end) ==
    LET new == UnvisitedPaths(g, n, Head(queue), visited)
    IN  IF end \in SeqToSet(Neighbours4(Head(queue))) THEN <<TRUE, <<>>, visited>>
        ELSE <<FALSE, Tail(queue) \o new, visited \cup SeqToSet(new)>>

RECURSIVE IsConnectedLoop(_, _, _, _, _)
\* is_connected, lines 19-30: the while loop
IsConnectedLoop(g, n, queue, visited, end) ==
    IF queue = <<>> THEN FALSE
    ELSE CHOOSE r \in { IF st[1] THEN TRUE ELSE IsConnectedLoop(g, n, st[2], st[3], end) :
                            st \in { IsConnectedStep(g, n, queue, visited, end) } } : TRUE

is_connected(g, n, start, end) ==
    IF start = end THEN TRUE
    ELSE IsConnectedLoop(g, n, <<start>>, {start}, end)

RECURSIVE TraversableLoop(_, _, _, _)
\* is_fully_traversable, lines 41-47: the while loop; returns visited
TraversableLoop(g, n, queue, visited) ==
    IF queue = <<>> THEN visited
    ELSE CHOOSE r \in { TraversableLoop(g, n, Tail(queue) \o new, visited \cup SeqToSet(new)) :
                            new \in { UnvisitedPaths(g, n, Head(queue), visited) } } : TRUE

total_paths(g, n) == Cardinality({ p \in Cells(n) : g[p[2]][p[1]] = PATH })

is_fully_traversable(g, n, start_pos) ==
    IF start_pos = None THEN FALSE
    ELSE Cardinality(TraversableLoop(g, n, <<start_pos>>, {start_pos})) = total_paths(g, n)

\* a call validator.is_connected(start, end)
ValidatorIsConnected ==
    /\ vpc = "idle"
    /\ vres' = is_connected(vgrid, ValN, vstart, vend)
    /\ vpc' = "is_connected"
    /\ UNCHANGED <<vgrid, vstart, vend, lvars, gvars, mvars, avars, nvars, evars, qvars, pvars>>

\* a call validator.is_fully_traversable(start_pos)
ValidatorIsFullyTraversable ==
    /\ vpc = "idle"
    /\ vres' = is_fully_traversable(vgrid, ValN, vstart)
    /\ vpc' = "is_fully_traversable"
    /\ UNCHANGED <<vgrid, vstart, vend, lvars, gvars, mvars, avars, nvars, evars, qvars, pvars>>

\* the state of the looper while another component is exercised
LooperIdle ==
    /\ lgrid = <<>>
    /\ lgrid0 = <<>>
    /\ lsnap = <<>>
    /\ lpc = "idle"
    /\ ldead = <<>>
    /\ lcalls = 0

ValidatorInit ==
    /\ NearestIdle
    /\ AStarIdle
    /\ EnemyIdle
    /\ QueryIdle
    /\ WaypointsIdle
    /\ MazeIdle
    /\ LooperIdle
    /\ GeneratorIdle
    /\ vgrid \in SparseGrids(ValN, ValSparse)
    /\ vpc = "idle"
    /\ vstart \in Cells(ValN)
    /\ vend \in Cells(ValN)
    /\ vres = None

ValidatorNext == ValidatorIsConnected \/ ValidatorIsFullyTraversable

SpecValidator == ValidatorInit /\ [][ValidatorNext]_vars

\* ------------------------------------------------------------------------
\* The generators (src/src/systems/maze_generator.py, maze_type_1..4.py)
\* ------------------------------------------------------------------------
GenN == 2 * GenHalf + 1

\* [[v] * grid_size for _ in range(grid_size)]
FilledGrid(n, v) == [y \in 0..(n-1) |-> [x \in 0..(n-1) |-> v]]

\* one pass of the mirror loops: line i is copied onto line grid_size - 1 - i
MirrorLine(g, n, i, is_vertical) ==
    IF is_vertical
    THEN [y \in 0..(n-1) |-> [x \in 0..(n-1) |-> IF x = n - 1 - i THEN g[y][i] ELSE g[y][x]]]
    ELSE [y \in 0..(n-1) |-> [x \in 0..(n-1) |-> IF y = n - 1 - i THEN g[i][x] ELSE g[y][x]]]

RECURSIVE MirrorFrom(_, _, _, _, _)
\* for i in range(i, count): the copies are made one after the other
MirrorFrom(g, n, i, count, is_vertical) ==
    IF i >= count THEN g
    ELSE CHOOSE r \in { MirrorFrom(g2, n, i + 1, count, is_vertical) :
                            g2 \in { MirrorLine(g, n, i, is_vertical) } } : TRUE

\* MazeGenerator._mirror with the loop stopping one line early
_mirror_short(g, n, is_vertical) == MirrorFrom(g, n, 0, (n \div 2) - 1, is_vertical)

\* MazeGenerator._mirror (used by MazeType2): half_count = grid_size // 2
_mirror(g, n, is_vertical) == MirrorFrom(g, n, 0, n \div 2, is_vertical)

\* MazeType1._mirror and MazeType3._mirror: range(half_size)
_mirror_half(g, n, half_size, is_vertical) == MirrorFrom(g, n, 0, half_size, is_vertical)

\* MazeType4._mirror: mirror_count = grid_size // 2, half_size is not used
_mirror4(g, n, half_size, is_vertical) == MirrorFrom(g, n, 0, n \div 2, is_vertical)

half_size_of(n) == (n \div 2) + 1

RECURSIVE PlaceFrom(_, _, _, _, _, _, _, _)
\* MazeType1._place_segment: the for loop from i on
PlaceFrom(g, n, line, start, cell_type, length, is_vertical, i) ==
    IF i >= length \/ start + i >= n THEN g
    ELSE CHOOSE r \in { PlaceFrom(g2, n, line, start, cell_type, length, is_vertical, i + 1) :
            g2 \in { IF is_vertical THEN SetCell(g, line, start + i, cell_type)
                                    ELSE SetCell(g, start + i, line, cell_type) } } : TRUE

\* variant of _place_segment that writes WALL whatever the cell type
_place_segment_wall_only(g, n, line, start, cell_type, length, is_vertical) ==
    PlaceFrom(g, n, line, start, WALL, length, is_vertical, 0)

\* MazeType1._place_segment returns start + length; this is the grid it leaves
_place_segment(g, n, line, start, cell_type, length, is_vertical) ==
    PlaceFrom(g, n, line, start, cell_type, length, is_vertical, 0)

\* MazeType1._fill_line, lines 30-31: position = 0 and the draw of start_with_path;
\* MazeType1._scatter_walls, line 26: the mirror when the lines are exhausted
Gen1BeginLine ==
    /\ gpc = "t1_line"
    /\ IF gloc.line < half_size_of(GenN)
       THEN /\ \E start_with_path \in BOOLEAN :
                 gloc' = [line |-> gloc.line, position |-> 0, start_with_path |-> start_with_path]
            /\ gpc' = "t1_fill"
            /\ ggrid' = ggrid
       ELSE /\ ggrid' = _mirror_half(ggrid, GenN, half_size_of(GenN), gvert)
            /\ gpc' = "done"
            /\ gloc' = <<>>
    /\ UNCHANGED <<gtype, gvert, lvars, vvars, mvars, avars, nvars, evars, qvars, pvars>>

\* MazeType1._fill_line, lines 33-41: one iteration of the while loop
Gen1FillStep ==
    /\ gpc = "t1_fill"
    /\ \E length \in min_wall_length..max_wall_length :
         LET pos == gloc.position
             g2  == IF gloc.start_with_path
                    THEN _place_segment(
                             _place_segment(ggrid, GenN, gloc.line, pos, PATH, 1, gvert),
                             GenN, gloc.line, pos + 1, WALL, length, gvert)
                    ELSE _place_segment(
                             _place_segment(ggrid, GenN, gloc.line, pos, WALL, length, gvert),
                             GenN, gloc.line, pos + length, PATH, 1, gvert)
             position2 == pos + 1 + length
         IN  /\ ggrid' = g2
             /\ IF position2 < GenN
                THEN /\ gloc' = [gloc EXCEPT !.position = position2]
                     /\ gpc' = "t1_fill"
                ELSE /\ gloc' = [line |-> gloc.line + 2]
                     /\ gpc' = "t1_line"
    /\ UNCHANGED <<gtype, gvert, lvars, vvars, mvars, avars, nvars, evars, qvars, pvars>>

\* MazeType2.generate, lines 18-23: the cells visited, y outer and x inner
Type2Cells(n, half_size, is_vertical) ==
    SelectSeq([i \in 1..(n * n) |-> CellOf(n, i - 1)], LAMBDA p :
        /\ p[1] % 2 = 0 /\ p[2] % 2 = 0
        /\ ~(is_vertical /\ p[1] >= half_size)
        /\ ~(~is_vertical /\ p[2] >= half_size))

\* opens both passages when both ways are open
_carve_passage_both(g, x, y, n, half_size, is_vertical, random_north) ==
    LET can_go_north == y >= 2 /\ ~(~is_vertical /\ y >= half_size)
        can_go_west  == x >= 2 /\ ~(is_vertical /\ x >= half_size)
    IN  IF can_go_north /\ can_go_west THEN SetCell(SetCell(g, x, y - 1, PATH), x - 1, y, PATH)
        ELSE IF can_go_north THEN SetCell(g, x, y - 1, PATH)
        ELSE IF can_go_west THEN SetCell(g, x - 1, y, PATH)
        ELSE g

\* MazeType2._carve_passage; random_north is the outcome of
\* random.random() < north_bias, drawn only when both ways are open
_carve_passage(g, x, y, n, half_size, is_vertical, random_north) ==
    LET can_go_north == y >= 2 /\ ~(~is_vertical /\ y >= half_size)
        can_go_west  == x >= 2 /\ ~(is_vertical /\ x >= half_size)
        go_north     == IF can_go_north /\ can_go_west THEN random_north ELSE can_go_north
    IN  IF ~can_go_north /\ ~can_go_west THEN g
        ELSE IF go_north THEN SetCell(g, x, y - 1, PATH)
        ELSE SetCell(g, x - 1, y, PATH)

\* MazeType2.generate, lines 25-26: one cell of the double loop
Gen2Cell ==
    /\ gpc = "t2_cells"
    /\ gloc.k <= Len(Type2Cells(GenN, half_size_of(GenN), gvert))
    /\ LET cell == Type2Cells(GenN, half_size_of(GenN), gvert)[gloc.k]
       IN  \E random_north \in BOOLEAN :
             ggrid' = _carve_passage(SetCell(ggrid, cell[1], cell[2], PATH), cell[1], cell[2],
                                     GenN, half_size_of(GenN), gvert, random_north)
    /\ gloc' = [k |-> gloc.k + 1]
    /\ UNCHANGED <<gtype, gvert, gpc, lvars, vvars, mvars, avars, nvars, evars, qvars, pvars>>

\* MazeType2.generate, line 28: the mirror, before _connect_mirror_line
Gen2Mirror ==
    /\ gpc = "t2_cells"
    /\ gloc.k > Len(Type2Cells(GenN, half_size_of(GenN), gvert))
    /\ ggrid' = _mirror(ggrid, GenN, gvert)
    /\ gpc' = "t2_connect"
    /\ gloc' = [i |-> 1]
    /\ UNCHANGED <<gtype, gvert, lvars, vvars, mvars, avars, nvars, evars, qvars, pvars>>

\* MazeType2._connect_mirror_line: the cell on the mirror line at index i
\* is opened when the cells on its two sides are PATH and the draw says so
ConnectAt(g, n, i, is_vertical, random_open) ==
    LET mirror_line == n \div 2
        before == mirror_line - 1
        after  == mirror_line + 1
    IN  IF is_vertical
        THEN IF 0 <= before /\ before < n /\ 0 <= after /\ after < n
                /\ g[i][before] = PATH /\ g[i][after] = PATH /\ random_open
             THEN SetCell(g, mirror_line, i, PATH) ELSE g
        ELSE IF 0 <= before /\ before < n /\ 0 <= after /\ after < n
                /\ g[before][i] = PATH /\ g[after][i] = PATH /\ random_open
             THEN SetCell(g, i, mirror_line, PATH) ELSE g

\* MazeType2._connect_mirror_line: one iteration of for ... in range(1, grid_size - 1, 2)
Gen2Connect ==
    /\ gpc = "t2_connect"
    /\ \E random_open \in BOOLEAN :
         ggrid' = IF gloc.i < GenN - 1
                  THEN ConnectAt(ggrid, GenN, gloc.i, gvert, random_open)
                  ELSE ggrid
    /\ IF gloc.i + 2 < GenN - 1
       THEN gpc' = gpc /\ gloc' = [i |-> gloc.i + 2]
       ELSE gpc' = "done" /\ gloc' = <<>>
    /\ UNCHANGED <<gtype, gvert, lvars, vvars, mvars, avars, nvars, evars, qvars, pvars>>

\* MazeType3._is_in_generation_area
_is_in_generation_area(x, y, half_size, is_vertical) ==
    IF is_vertical THEN x < half_size ELSE y < half_size

\* MazeType3._is_valid_neighbor
_is_valid_neighbor(x, y, n, half_size, is_vertical) ==
    IF ~(0 <= x /\ x < n /\ 0 <= y /\ y < n) THEN FALSE
    ELSE IF x % 2 = 0 \/ y % 2 = 0 THEN FALSE
    ELSE _is_in_generation_area(x, y, half_size, is_vertical)

\* directions at 2-cell distance: N, E, S, W
Dirs2 == << <<0, -2>>, <<2, 0>>, <<0, 2>>, <<-2, 0>> >>

\* MazeType3._get_unvisited_neighbors; visited is the set of cells marked True
_get_unvisited_neighbors(visited, x, y, n, half_size, is_vertical) ==
    SelectSeq([i \in 1..4 |-> Add(<<x, y>>, Dirs2[i])], LAMBDA q :
        _is_valid_neighbor(q[1], q[2], n, half_size, is_vertical) /\ q \notin visited)

\* MazeType3._get_visited_neighbors
_get_visited_neighbors(visited, x, y, n, half_size, is_vertical) ==
    SelectSeq([i \in 1..4 |-> Add(<<x, y>>, Dirs2[i])], LAMBDA q :
        _is_valid_neighbor(q[1], q[2], n, half_size, is_vertical) /\ q \in visited)

\* opens the neighbour and leaves the wall between the two cells
CarveTo_no_passage(g, c, nb) == SetCell(g, nb[1], nb[2], PATH)

\* the passage between a cell and its neighbour at distance 2, and the neighbour
CarveTo(g, c, nb) ==
    SetCell(SetCell(g, (c[1] + nb[1]) \div 2, (c[2] + nb[2]) \div 2, PATH), nb[1], nb[2], PATH)

\* range(1, stop, 2)
OddsBelow(stop) == { k \in 1..(stop - 1) : k % 2 = 1 }

\* MazeType3.generate, lines 26-35: the draw of the starting cell
Gen3Start ==
    /\ gpc = "t3_start"
    /\ \E current_x \in (IF gvert THEN OddsBelow(half_size_of(GenN)) ELSE OddsBelow(GenN)),
          current_y \in (IF gvert THEN OddsBelow(GenN) ELSE OddsBelow(half_size_of(GenN))) :
         /\ gloc' = [visited |-> {<<current_x, current_y>>}, current |-> <<current_x, current_y>>]
         /\ ggrid' = SetCell(ggrid, current_x, current_y, PATH)
    /\ gpc' = "t3_walk"
    /\ UNCHANGED <<gtype, gvert, lvars, vvars, mvars, avars, nvars, evars, qvars, pvars>>

\* MazeType3._random_walk: one iteration of the while loop
Gen3Walk ==
    /\ gpc = "t3_walk"
    /\ LET neighbors == _get_unvisited_neighbors(gloc.visited, gloc.current[1], gloc.current[2],
                                                  GenN, half_size_of(GenN), gvert)
       IN  IF neighbors = <<>>
           THEN /\ gpc' = "t3_hunt"
                /\ UNCHANGED <<ggrid, gloc>>
           ELSE /\ \E k \in 1..Len(neighbors) :
                     /\ ggrid' = CarveTo(ggrid, gloc.current, neighbors[k])
                     /\ gloc' = [visited |-> gloc.visited \cup {neighbors[k]},
                                 current |-> neighbors[k]]
                /\ gpc' = gpc
    /\ UNCHANGED <<gtype, gvert, lvars, vvars, mvars, avars, nvars, evars, qvars, pvars>>

\* MazeType3._hunt: the cells scanned, y outer and x inner over the odd
\* coordinates, that are in the generation area, unvisited and next to a
\* visited cell
HuntCandidates(visited, n, half_size, is_vertical) ==
    SelectSeq([i \in 1..(n * n) |-> CellOf(n, i - 1)], LAMBDA p :
        /\ p[1] % 2 = 1 /\ p[2] % 2 = 1
        /\ _is_in_generation_area(p[1], p[2], half_size, is_vertical)
        /\ p \notin visited
        /\ _get_visited_neighbors(visited, p[1], p[2], n, half_size, is_vertical) # <<>>)

\* MazeType3._hunt, and the end of _hunt_and_kill with the mirror of
\* generate (line 41) when _hunt returns None
Gen3Hunt ==
    /\ gpc = "t3_hunt"
    /\ LET found == HuntCandidates(gloc.visited, GenN, half_size_of(GenN), gvert)
       IN  IF found = <<>>
           THEN /\ ggrid' = _mirror_half(ggrid, GenN, half_size_of(GenN), gvert)
                /\ gpc' = "done"
                /\ gloc' = <<>>
           ELSE LET cell == found[1]
                    visited_neighbors == _get_visited_neighbors(gloc.visited, cell[1], cell[2],
                                                                GenN, half_size_of(GenN), gvert)
                IN  /\ \E k \in 1..Len(visited_neighbors) :
                          ggrid' = CarveTo(SetCell(ggrid, cell[1], cell[2], PATH),
                                           cell, visited_neighbors[k])
                    /\ gloc' = [visited |-> gloc.visited \cup {cell}, current |-> cell]
                    /\ gpc' = "t3_walk"
    /\ UNCHANGED <<gtype, gvert, lvars, vvars, mvars, avars, nvars, evars, qvars, pvars>>

\* range(start, stop, 2) for an even start
EvensFrom(start, stop) == { k \in start..(stop - 1) : k % 2 = 0 }

\* MazeType4._initialize_cells
_initialize_cells(g, n, half_size, is_vertical) ==
    [y \in 0..(n-1) |-> [x \in 0..(n-1) |->
        IF y % 2 = 0 /\ x % 2 = 0 /\ (IF is_vertical THEN x < half_size ELSE y < half_size)
        THEN PATH ELSE g[y][x]]]

\* MazeType4._sidewinder_vertical, lines 51-53, and _sidewinder_horizontal,
\* lines 79-81: the passages of the first column or row
FirstLinePassages(g, n, is_vertical) ==
    [y \in 0..(n-1) |-> [x \in 0..(n-1) |->
        IF is_vertical
        THEN IF x = 0 /\ (y - 1) \in EvensFrom(0, n - 2) /\ y < n THEN PATH ELSE g[y][x]
        ELSE IF y = 0 /\ (x - 1) \in EvensFrom(0, n - 2) /\ x < n THEN PATH ELSE g[y][x]]]

\* MazeType4.generate, lines 15-20, and the first loop of _sidewinder_*
Gen4Init ==
    /\ gpc = "t4_init"
    /\ ggrid' = FirstLinePassages(_initialize_cells(ggrid, GenN, half_size_of(GenN), gvert),
                                  GenN, gvert)
    /\ gpc' = "t4_run"
    /\ gloc' = [outer |-> 2, inner |-> 0, run |-> <<>>]
    /\ UNCHANGED <<gtype, gvert, lvars, vvars, mvars, avars, nvars, evars, qvars, pvars>>

\* MazeType4._sidewinder_vertical, lines 58-74 (x = outer, y = inner), and
\* _sidewinder_horizontal, lines 86-102 (y = outer, x = inner): one
\* iteration of the inner loop
Gen4Step ==
    /\ gpc = "t4_run"
    /\ gloc.outer < half_size_of(GenN)
    /\ LET run == Append(gloc.run, gloc.inner)
           at_edge == gloc.inner >= GenN - 2
       IN  \E random_close \in BOOLEAN, k \in 1..Len(run) :
             LET close_run == at_edge \/ random_close
                 member == run[k]
             IN  /\ ggrid' = IF close_run
                             THEN IF gloc.outer - 1 >= 0
                                  THEN IF gvert THEN SetCell(ggrid, gloc.outer - 1, member, PATH)
                                                ELSE SetCell(ggrid, member, gloc.outer - 1, PATH)
                                  ELSE ggrid
                             ELSE IF gloc.inner + 1 < GenN
                                  THEN IF gvert THEN SetCell(ggrid, gloc.outer, gloc.inner + 1, PATH)
                                                ELSE SetCell(ggrid, gloc.inner + 1, gloc.outer, PATH)
                                  ELSE ggrid
                 /\ gloc' = IF gloc.inner + 2 < GenN
                            THEN [outer |-> gloc.outer, inner |-> gloc.inner + 2,
                                  run |-> IF close_run THEN <<>> ELSE run]
                            ELSE [outer |-> gloc.outer + 2, inner |-> 0, run |-> <<>>]
    /\ UNCHANGED <<gtype, gvert, gpc, lvars, vvars, mvars, avars, nvars, evars, qvars, pvars>>

\* MazeType4.generate, line 26: the mirror
Gen4Mirror ==
    /\ gpc = "t4_run"
    /\ gloc.outer >= half_size_of(GenN)
    /\ ggrid' = _mirror4(ggrid, GenN, half_size_of(GenN), gvert)
    /\ gpc' = "done"
    /\ gloc' = <<>>
    /\ UNCHANGED <<gtype, gvert, lvars, vvars, mvars, avars, nvars, evars, qvars, pvars>>

\* a generator object with its orientation, at the entry of generate(GenN)
GeneratorInit ==
    /\ NearestIdle
    /\ AStarIdle
    /\ EnemyIdle
    /\ QueryIdle
    /\ WaypointsIdle
    /\ MazeIdle
    /\ LooperIdle
    /\ ValidatorIdle
    /\ gtype \in 1..4
    /\ gvert \in BOOLEAN
    /\ ggrid = IF gtype = 1 THEN FilledGrid(GenN, PATH) ELSE FilledGrid(GenN, WALL)
    /\ gpc = CASE gtype = 1 -> "t1_line" [] gtype = 2 -> "t2_cells"
               [] gtype = 3 -> "t3_start" [] gtype = 4 -> "t4_init"
    /\ gloc = CASE gtype = 1 -> [line |-> 1] [] gtype = 2 -> [k |-> 1]
                [] gtype = 3 -> <<>> [] gtype = 4 -> <<>>

GeneratorNext ==
    \/ Gen1BeginLine \/ Gen1FillStep
    \/ Gen2Cell \/ Gen2Mirror \/ Gen2Connect
    \/ Gen3Start \/ Gen3Walk \/ Gen3Hunt
    \/ Gen4Init \/ Gen4Step \/ Gen4Mirror

SpecGenerator == GeneratorInit /\ [][GeneratorNext]_vars

\* MazeType3.generate alone, up to its return
HuntAndKillInit == GeneratorInit /\ gtype = 3

HuntAndKillNext == Gen3Start \/ Gen3Walk \/ Gen3Hunt

\* generate is one sequential call: a step that can be taken is taken
FairSpecHuntAndKill == HuntAndKillInit /\ [][HuntAndKillNext]_vars /\ WF_vars(HuntAndKillNext)

\* MazeType1.generate alone, from its empty all-PATH grid to the mirrored grid
ScatteredInit == GeneratorInit /\ gtype = 1

ScatteredNext == Gen1BeginLine \/ Gen1FillStep

SpecScattered == ScatteredInit /\ [][ScatteredNext]_vars

\* ------------------------------------------------------------------------
\* Maze (src/systems/maze.py)
\* ------------------------------------------------------------------------

\* Maze.__init__, lines 52-55: an even grid_size is made odd
grid_size == IF grid_size_arg % 2 = 0 THEN grid_size_arg + 1 ELSE grid_size_arg

middle == grid_size \div 2

\* list(Direction): UP, DOWN, LEFT, RIGHT
Direction == << <<0, -1>>, <<0, 1>>, <<-1, 0>>, <<1, 0>> >>

\* Direction.turn_right: UP -> RIGHT -> DOWN -> LEFT -> UP
turn_right(d) ==
    IF d = <<0, -1>> THEN <<1, 0>>
    ELSE IF d = <<1, 0>> THEN <<0, 1>>
    ELSE IF d = <<0, 1>> THEN <<-1, 0>>
    ELSE <<0, -1>>

_is_valid(x, y) == 0 <= x /\ x < grid_size /\ 0 <= y /\ y < grid_size

Min2(a, b) == IF a < b THEN a ELSE b

Max2(a, b) == IF a > b THEN a ELSE b

\* _carve_chamber: the rectangle clipped to the grid becomes corridor
_carve_chamber(g, x, y, width, height) ==
    [cy \in 0..(grid_size-1) |-> [cx \in 0..(grid_size-1) |->
        IF /\ y <= cy /\ cy < Min2(y + height, grid_size)
           /\ x <= cx /\ cx < Min2(x + width, grid_size)
        THEN INTERNAL_CORRIDOR ELSE g[cy][cx]]]

\* _mirror_to_right: for x in range(middle + 1), column grid_size-1-x takes
\* column x; the columns are copied in this order, so a column right of the
\* middle always takes the left half's value
_mirror_to_right(g) ==
    [y \in 0..(grid_size-1) |-> [x \in 0..(grid_size-1) |->
        IF x >= grid_size - 1 - middle /\ grid_size - 1 - x < x
        THEN g[y][grid_size - 1 - x] ELSE g[y][x]]]

\* _get_projected_fill, as the number of corridor cells the mirrored grid
\* would have; the source divides it by grid_size * grid_size
projected_filled(g) ==
    2 * Cardinality({ p \in Cells(grid_size) : p[1] < middle /\ g[p[2]][p[1]] = INTERNAL_CORRIDOR })
    + Cardinality({ y \in 0..(grid_size-1) : g[y][middle] = INTERNAL_CORRIDOR })

\* _get_projected_fill(grid) < self.fill_target
fill_below_target(g) ==
    projected_filled(g) * fill_target_den < fill_target_num * grid_size * grid_size

\* _get_frontier_cells: the corridor cells of columns 0..middle with a wall
\* neighbour inside the grid, in scan order (y outer, x inner)
IsFrontier(g, p) ==
    /\ g[p[2]][p[1]] = INTERNAL_CORRIDOR
    /\ \E i \in 1..4 :
          LET q == Add(p, Dirs4[i])
          IN  _is_valid(q[1], q[2]) /\ g[q[2]][q[1]] = INTERNAL_WALL

_get_frontier_cells(g) ==
    LET order == [i \in 1..(grid_size * (middle + 1)) |->
                     <<(i - 1) % (middle + 1), (i - 1) \div (middle + 1)>>]
    IN  SelectSeq(order, LAMBDA p : IsFrontier(g, p))

IsCorridor(g, x, y) == _is_valid(x, y) /\ g[y][x] = INTERNAL_CORRIDOR

\* _has_2x2_corridor_block: some 2x2 block with corner (x, y) has its three
\* other cells corridor and fewer than 4 of the 8 cells beside it corridor.
\* sx, sy are the signs of the pattern's offsets.
BlockNarrow(g, x, y, sx, sy) ==
    LET min_x == Min2(x, x + sx)
        max_x == Max2(x, x + sx)
        min_y == Min2(y, y + sy)
        max_y == Max2(y, y + sy)
        check_points == << <<min_x - 1, min_y>>, <<min_x - 1, max_y>>,
                           <<max_x + 1, min_y>>, <<max_x + 1, max_y>>,
                           <<min_x, min_y - 1>>, <<max_x, min_y - 1>>,
                           <<min_x, max_y + 1>>, <<max_x, max_y + 1>> >>
        expansion_count == Cardinality({ i \in 1..8 :
                               IsCorridor(g, check_points[i][1], check_points[i][2]) })
    IN  /\ IsCorridor(g, x + sx, y)
        /\ IsCorridor(g, x, y + sy)
        /\ IsCorridor(g, x + sx, y + sy)
        /\ expansion_count < 4

_has_2x2_corridor_block(g, x, y) ==
    \E sx \in {1, -1}, sy \in {1, -1} : BlockNarrow(g, x, y, sx, sy)

Diagonals == << <<-1, -1>>, <<1, -1>>, <<-1, 1>>, <<1, 1>> >>

\* _would_create_wall_island: some wall neighbour of (x, y) would have all
\* four orthogonal neighbours corridor and no wall among its 8 neighbours
_would_create_wall_island(g, x, y) ==
    \E i \in 1..4 :
        LET w == Add(<<x, y>>, Dirs4[i])
            orth == { Add(w, Dirs4[j]) : j \in 1..4 }
            diag == { Add(w, Diagonals[j]) : j \in 1..4 }
            corridor_neighbors == Cardinality({ q \in orth :
                /\ _is_valid(q[1], q[2])
                /\ (g[q[2]][q[1]] = INTERNAL_CORRIDOR \/ q = <<x, y>>) })
            wall_neighbors ==
                Cardinality({ q \in orth :
                    /\ _is_valid(q[1], q[2])
                    /\ ~(g[q[2]][q[1]] = INTERNAL_CORRIDOR \/ q = <<x, y>>)
                    /\ g[q[2]][q[1]] = INTERNAL_WALL })
                + Cardinality({ q \in diag :
                    _is_valid(q[1], q[2]) /\ g[q[2]][q[1]] = INTERNAL_WALL })
        IN  /\ _is_valid(w[1], w[2])
            /\ g[w[2]][w[1]] = INTERNAL_WALL
            /\ corridor_neighbors >= 4
            /\ wall_neighbors = 0

\* the tests of one step of _carve_segment at the cell (x, y) it moved to:
\* TRUE when the loop breaks there
SegmentBreaks(g, x, y) ==
    \/ ~_is_valid(x, y)
    \/ x > middle
    \/ g[y][x] = INTERNAL_CORRIDOR
    \/ _has_2x2_corridor_block(g, x, y)
    \/ _would_create_wall_island(g, x, y)
    \/ g[y][x] # INTERNAL_WALL

RECURSIVE CarveSegmentLoop(_, _, _, _, _, _)
\* the for loop of _carve_segment with `left` steps to go; the result is
\* <<grid, carved>>
CarveSegmentLoop(g, x, y, d, left, carved) ==
    IF left = 0 \/ SegmentBreaks(g, x + d[1], y + d[2])
    THEN <<g, carved>>
    ELSE CHOOSE r \in { CarveSegmentLoop(g2, x + d[1], y + d[2], d, left - 1, carved + 1) :
                          g2 \in { SetCell(g, x + d[1], y + d[2], INTERNAL_CORRIDOR) } } : TRUE

_carve_segment(g, start_x, start_y, d, length) ==
    CarveSegmentLoop(g, start_x, start_y, d, length, 0)

RECURSIVE CarvePatternLoop(_, _, _, _)
\* the for loop of _carve_pattern_from over the segment lengths still to be
\* drawn; each segment starts where the previous one stopped and turns right
CarvePatternLoop(g, pos, d, lengths) ==
    IF lengths = <<>> THEN g
    ELSE CHOOSE r \in { CarvePatternLoop(seg[1],
                            <<pos[1] + d[1] * seg[2], pos[2] + d[2] * seg[2]>>,
                            turn_right(d), Tail(lengths)) :
                        seg \in { _carve_segment(g, pos[1], pos[2], d, Head(lengths)) } } : TRUE

_carve_pattern_from(g, start_cell, initial_dir, lengths) ==
    CarvePatternLoop(g, start_cell, initial_dir, lengths)

\* _convert_grid: INTERNAL_WALL becomes WALL, anything else PATH
_convert_grid(internal_grid) ==
    [y \in 0..(grid_size-1) |-> [x \in 0..(grid_size-1) |->
        IF internal_grid[y][x] = INTERNAL_WALL THEN WALL ELSE PATH]]

\* the inner for loop of _find_start_end over one row: the first PATH cell
\* of columns lo..hi-1 is assigned, otherwise the attribute keeps its value
RowScan(g, y, lo, hi, pos) ==
    LET xs == { x \in lo..(hi-1) : g[y][x] = PATH }
    IN  IF xs = {} THEN pos
        ELSE <<CHOOSE x \in xs : \A x2 \in xs : x <= x2, y>>

RECURSIVE CornerScan(_, _, _, _, _)
\* the outer for loop of _find_start_end over rows y..hi-1: after each row
\* the loop is left when the attribute is set, whichever call set it
CornerScan(g, y, lo, hi, pos) ==
    IF y >= hi THEN pos
    ELSE LET pos2 == RowScan(g, y, lo, hi, pos)
         IN  IF pos2 # None THEN pos2 ELSE CornerScan(g, y + 1, lo, hi, pos2)

\* _find_start_end: <<start_pos, end_pos>> from the grid and the values the
\* two attributes had before the call
_find_start_end(g, old_start, old_end) ==
    LET s == CornerScan(g, 0, 0, Min2(3, grid_size), old_start)
        e == CornerScan(g, Max2(0, grid_size - 3), Max2(0, grid_size - 3), grid_size, old_end)
    IN  << IF s = None THEN <<1, 1>> ELSE s,
           IF e = None THEN <<grid_size - 2, grid_size - 2>> ELSE e >>

\* variant of the for loop of Maze._is_connected that does not test the
\* neighbour for PATH
MazeNewCells_through_walls(g, p, visited) ==
    SelectSeq([i \in 1..4 |-> Add(p, Dirs4[i])],
              LAMBDA q : _is_valid(q[1], q[2]) /\ q \notin visited)

\* the for loop of Maze._is_connected at the popped cell: the neighbours
\* that are valid, not visited and PATH, in the order of the source
MazeNewCells(g, p, visited) ==
    SelectSeq([i \in 1..4 |-> Add(p, Dirs4[i])],
              LAMBDA q : _is_valid(q[1], q[2]) /\ q \notin visited /\ g[q[2]][q[1]] = PATH)

RECURSIVE MazeConnectedLoop(_, _, _, _)
\* the while loop of Maze._is_connected
MazeConnectedLoop(g, queue, visited, end) ==
    IF queue = <<>> THEN FALSE
    ELSE IF Head(queue) = end THEN TRUE
    ELSE CHOOSE r \in { MazeConnectedLoop(g, Tail(queue) \o new, visited \cup SeqToSet(new), end) :
                          new \in { MazeNewCells(g, Head(queue), visited) } } : TRUE

\* always-accept variant of _is_connected
_is_connected_always(g, start, end) == TRUE

_is_connected(g, start, end) ==
    IF start = None \/ end = None THEN FALSE
    ELSE MazeConnectedLoop(g, <<start>>, {start}, end)

\* _generate, lines 93-99: a new attempt draws chamber_size, carves the two
\* chambers and mirrors; _carve_corridors starts with iterations = 0
MazeBeginAttempt ==
    /\ mpc = "attempt"
    /\ mattempt < generation_attempts
    /\ \E chamber_size \in chamber_min..chamber_max :
          LET g0 == FilledGrid(grid_size, INTERNAL_WALL)
              g1 == _carve_chamber(g0, 1, 1, chamber_size, chamber_size)
              g2 == _carve_chamber(g1, 1, grid_size - chamber_size - 1, chamber_size, chamber_size)
          IN  minternal' = _mirror_to_right(g2)
    /\ miter' = 0
    /\ mpc' = "carve"
    /\ UNCHANGED <<mattempt, mgrid, mstart, mend, lvars, vvars, gvars, avars, nvars, evars, qvars, pvars>>

\* _carve_corridors, lines 131-139: one iteration of the while loop that
\* carves a pattern from a frontier cell
MazeCarvePattern ==
    /\ mpc = "carve"
    /\ fill_below_target(minternal)
    /\ miter < max_iterations
    /\ LET frontier_cells == _get_frontier_cells(minternal)
       IN  /\ frontier_cells # <<>>
           /\ \E i \in 1..Len(frontier_cells), k \in 1..4,
                 lengths \in [1..4 -> corridor_len_min..corridor_len_max] :
                 minternal' = _carve_pattern_from(minternal, frontier_cells[i], Direction[k], lengths)
    /\ miter' = miter + 1
    /\ UNCHANGED <<mpc, mattempt, mgrid, mstart, mend, lvars, vvars, gvars, avars, nvars, evars, qvars, pvars>>

\* _carve_corridors leaves its loop (target reached, iterations used up, or
\* no frontier cell, found after iterations += 1) and _generate, lines
\* 101-106, takes its result: the attempt is converted and accepted when
\* connected, else the next begins
MazeEndAttempt ==
    /\ mpc = "carve"
    /\ \/ ~fill_below_target(minternal)
       \/ miter >= max_iterations
       \/ _get_frontier_cells(minternal) = <<>>
    /\ miter' = IF fill_below_target(minternal) /\ miter < max_iterations
                THEN miter + 1 ELSE miter
    /\ IF ~fill_below_target(minternal)
       THEN LET g == _convert_grid(_mirror_to_right(minternal))
                se == _find_start_end(g, mstart, mend)
            IN  /\ mgrid' = g
                /\ minternal' = _mirror_to_right(minternal)
                /\ mstart' = se[1]
                /\ mend' = se[2]
                /\ IF _is_connected(g, se[1], se[2])
                   THEN mpc' = "done" /\ mattempt' = mattempt
                   ELSE mpc' = "attempt" /\ mattempt' = mattempt + 1
       ELSE /\ mpc' = "attempt"
            /\ mattempt' = mattempt + 1
            /\ UNCHANGED <<minternal, mgrid, mstart, mend>>
    /\ UNCHANGED <<lvars, vvars, gvars, avars, nvars, evars, qvars, pvars>>

\* variant of the fallback that leaves start_pos as the last attempt set it
MazeFallback_stale_start ==
    /\ mpc = "attempt"
    /\ mattempt >= generation_attempts
    /\ mgrid' = FilledGrid(grid_size, PATH)
    /\ mend' = <<grid_size - 2, grid_size - 2>>
    /\ mpc' = "fallback"
    /\ UNCHANGED <<mstart, mattempt, minternal, miter, lvars, vvars, gvars, avars, nvars, evars, qvars, pvars>>

\* _generate, lines 108-110: every attempt was rejected
MazeFallback ==
    /\ mpc = "attempt"
    /\ mattempt >= generation_attempts
    /\ mgrid' = FilledGrid(grid_size, PATH)
    /\ mstart' = <<1, 1>>
    /\ mend' = <<grid_size - 2, grid_size - 2>>
    /\ mpc' = "fallback"
    /\ UNCHANGED <<mattempt, minternal, miter, lvars, vvars, gvars, avars, nvars, evars, qvars, pvars>>

\* Maze.__init__ up to the call of _generate: grid = [], no start, no end
MazeInit ==
    /\ NearestIdle
    /\ AStarIdle
    /\ EnemyIdle
    /\ QueryIdle
    /\ WaypointsIdle
    /\ LooperIdle
    /\ ValidatorIdle
    /\ GeneratorIdle
    /\ mpc = "attempt"
    /\ mattempt = 0
    /\ minternal = <<>>
    /\ miter = 0
    /\ mgrid = <<>>
    /\ mstart = None
    /\ mend = None

MazeNext ==
    \/ MazeBeginAttempt
    \/ MazeCarvePattern
    \/ MazeEndAttempt
    \/ MazeFallback

SpecMaze == MazeInit /\ [][MazeNext]_vars

\* ------------------------------------------------------------------------
\* AStarPathfinder (src/src/ai/pathfinding.py)
\* ------------------------------------------------------------------------

Abs(a) == IF a < 0 THEN -a ELSE a

\* _heuristic: Manhattan distance
_heuristic(pos1, pos2) == Abs(pos1[1] - pos2[1]) + Abs(pos1[2] - pos2[2])

\* variant of _is_valid_position that only tests the bounds
_is_valid_position_bounds_only(g, n, pos) ==
    ~(pos[1] < 0 \/ pos[1] >= n \/ pos[2] < 0 \/ pos[2] >= n)

\* _is_valid_position: within bounds and not a wall
_is_valid_position(g, n, pos) ==
    IF pos[1] < 0 \/ pos[1] >= n \/ pos[2] < 0 \/ pos[2] >= n THEN FALSE
    ELSE ~is_wall(g, n, pos[1], pos[2])

\* the offsets _get_neighbors walks through: up, down, left, right
NeighborOffsets == << <<0, -1>>, <<0, 1>>, <<-1, 0>>, <<1, 0>> >>

\* _get_neighbors: the valid neighbours in the order up, down, left, right
_get_neighbors(g, n, pos) ==
    SelectSeq([i \in 1..4 |-> Add(pos, NeighborOffsets[i])],
              LAMBDA q : _is_valid_position(g, n, q))

\* the order of the heap entries (f_score, counter, position); the counters
\* of two entries always differ
EntryLess(a, b) == a[1] < b[1] \/ (a[1] = b[1] /\ a[2] < b[2])

\* heapq.heappop: the smallest entry of the heap
heappop(heap) == CHOOSE e \in heap : \A e2 \in heap \ {e} : EntryLess(e, e2)

\* find_path, lines 73-87: the body of the for loop for one neighbour; st
\* holds open_set, counter, came_from, g_score, f_score, open_set_positions
VisitNeighbor(st, current, neighbor, goal) ==
    LET tentative_g_score == st.g_score[current] + 1
    IN  IF neighbor \notin DOMAIN st.g_score \/ tentative_g_score < st.g_score[neighbor]
        THEN LET f == tentative_g_score + _heuristic(neighbor, goal)
                 st2 == [st EXCEPT
                            !.came_from = (neighbor :> current) @@ st.came_from,
                            !.g_score = (neighbor :> tentative_g_score) @@ st.g_score,
                            !.f_score = (neighbor :> f) @@ st.f_score]
             IN  IF neighbor \notin st.open_set_positions
                 THEN [st2 EXCEPT
                          !.open_set = st.open_set \cup {<<f, st.counter, neighbor>>},
                          !.counter = st.counter + 1,
                          !.open_set_positions = st.open_set_positions \cup {neighbor}]
                 ELSE st2
        ELSE st

RECURSIVE NeighborLoop(_, _, _, _)
\* find_path, line 72: the for loop over the neighbours of current
NeighborLoop(st, current, neighbors, goal) ==
    IF neighbors = <<>> THEN st
    ELSE CHOOSE r \in { NeighborLoop(st2, current, Tail(neighbors), goal) :
                          st2 \in { VisitNeighbor(st, current, Head(neighbors), goal) } } : TRUE

RECURSIVE ReconstructLoop(_, _, _)
\* the while loop of _reconstruct_path; the path is kept start-first, which
\* is the list after path.reverse()
ReconstructLoop(came, current, path) ==
    IF current \in DOMAIN came
    THEN ReconstructLoop(came, came[current], <<came[current]>> \o path)
    ELSE path

\* only the tiles that came_from holds as keys: the start is left out
_reconstruct_path_no_start(came, current) == Tail(ReconstructLoop(came, current, <<current>>))

_reconstruct_path(came, current) == ReconstructLoop(came, current, <<current>>)

\* the bundle of the locals of find_path kept between two iterations
AStarLocals ==
    [open_set |-> open_set, counter |-> counter, came_from |-> came_from,
     g_score |-> g_score, f_score |-> f_score, open_set_positions |-> open_set_positions]

\* find_path, lines 37-62: validation, the start == goal case, and the
\* initial values of the locals
AStarBegin ==
    /\ apc = "call"
    /\ IF \/ ~_is_valid_position(agrid, maze_grid_size(agrid), astart)
          \/ ~_is_valid_position(agrid, maze_grid_size(agrid), agoal)
       THEN /\ aresult' = None
            /\ apc' = "done"
            /\ UNCHANGED <<open_set, counter, came_from, g_score, f_score, open_set_positions>>
       ELSE IF astart = agoal
       THEN /\ aresult' = <<astart>>
            /\ apc' = "done"
            /\ UNCHANGED <<open_set, counter, came_from, g_score, f_score, open_set_positions>>
       ELSE /\ open_set' = {<<0, 0, astart>>}
            /\ counter' = 1
            /\ came_from' = <<>>
            /\ g_score' = (astart :> 0)
            /\ f_score' = (astart :> _heuristic(astart, agoal))
            /\ open_set_positions' = {astart}
            /\ apc' = "loop"
            /\ UNCHANGED aresult
    /\ UNCHANGED <<agrid, astart, agoal, lvars, vvars, gvars, mvars, nvars, evars, qvars, pvars>>

\* find_path, lines 64-87: one iteration of the while loop
AStarPop ==
    /\ apc = "loop"
    /\ open_set # {}
    /\ LET entry == heappop(open_set)
           current == entry[3]
           popped == [AStarLocals EXCEPT
                         !.open_set = open_set \ {entry},
                         !.open_set_positions = open_set_positions \ {current}]
       IN  IF current = agoal
           THEN /\ aresult' = _reconstruct_path(came_from, current)
                /\ apc' = "done"
                /\ open_set' = popped.open_set
                /\ open_set_positions' = popped.open_set_positions
                /\ UNCHANGED <<counter, came_from, g_score, f_score>>
           ELSE LET st == NeighborLoop(popped, current,
                                         _get_neighbors(agrid, maze_grid_size(agrid), current),
                                         agoal)
                IN  /\ open_set' = st.open_set
                    /\ counter' = st.counter
                    /\ came_from' = st.came_from
                    /\ g_score' = st.g_score
                    /\ f_score' = st.f_score
                    /\ open_set_positions' = st.open_set_positions
                    /\ UNCHANGED <<aresult, apc>>
    /\ UNCHANGED <<agrid, astart, agoal, lvars, vvars, gvars, mvars, nvars, evars, qvars, pvars>>

\* find_path, lines 89-90: the open set ran empty
AStarNoPath ==
    /\ apc = "loop"
    /\ open_set = {}
    /\ aresult' = None
    /\ apc' = "done"
    /\ UNCHANGED <<agrid, astart, agoal, open_set, counter, came_from, g_score,
                   f_score, open_set_positions, lvars, vvars, gvars, mvars, nvars, evars, qvars, pvars>>

\* the grids find_path is called on: up to AStarWalls walls in an open field
AStarGrids == { GridWith(AStarN, S, WALL, PATH) : S \in SubsetsUpTo(AStarWalls, 0, AStarN * AStarN - 1) }

\* a pathfinder on a maze of AStarN x AStarN tiles and a call
\* find_path(start, goal) before its first statement
\* the positions find_path is called with: the cells of the grid, open or
\* walls, and one position beyond each side of it
AStarPositions ==
    Cells(AStarN) \cup {<<-1, 0>>, <<AStarN - 1, -1>>, <<AStarN, AStarN - 1>>, <<0, AStarN>>}

AStarInit ==
    /\ NearestIdle
    /\ LooperIdle
    /\ ValidatorIdle
    /\ GeneratorIdle
    /\ MazeIdle
    /\ EnemyIdle
    /\ QueryIdle
    /\ WaypointsIdle
    /\ agrid \in AStarGrids
    /\ astart \in AStarPositions
    /\ agoal \in AStarPositions
    /\ apc = "call"
    /\ open_set = {}
    /\ counter = 0
    /\ came_from = <<>>
    /\ g_score = <<>>
    /\ f_score = <<>>
    /\ open_set_positions = {}
    /\ aresult = None

AStarNext ==
    \/ AStarBegin
    \/ AStarPop
    \/ AStarNoPath

SpecAStar == AStarInit /\ [][AStarNext]_vars

\* the tiles that hold a wall in some of the mazes of side DetourN
DetourWallTiles == {<<2, 1>>, <<1, 3>>, <<2, 4>>, <<0, 6>>, <<1, 6>>, <<1, 7>>}

\* the mazes of side DetourN: open fields with walls on some of those tiles
DetourGrids ==
    { GridWith(DetourN, { t[2] * DetourN + t[1] : t \in S }, WALL, PATH) :
      S \in SUBSET DetourWallTiles }

\* a pathfinder on one of those mazes and a call find_path(start, goal)
\* from a tile of the top row to a tile of the bottom row, before its first
\* statement
DetourInit ==
    /\ NearestIdle
    /\ LooperIdle
    /\ ValidatorIdle
    /\ GeneratorIdle
    /\ MazeIdle
    /\ EnemyIdle
    /\ QueryIdle
    /\ WaypointsIdle
    /\ agrid \in DetourGrids
    /\ astart \in { <<x, 0>> : x \in 0..(DetourN - 1) }
    /\ agoal \in { <<x, DetourN - 1>> : x \in 0..(DetourN - 1) }
    /\ apc = "call"
    /\ open_set = {}
    /\ counter = 0
    /\ came_from = <<>>
    /\ g_score = <<>>
    /\ f_score = <<>>
    /\ open_set_positions = {}
    /\ aresult = None

SpecDetour == DetourInit /\ [][AStarNext]_vars

\* ------------------------------------------------------------------------
\* find_nearest_walkable_tile (src/src/ai/pathfinding.py)
\* ------------------------------------------------------------------------

\* find_nearest_walkable_tile, lines 218-235: the for loop over the
\* neighbours of the popped cell <<x, y, dist>>; st is
\* <<found tile or None, queue, visited>> and a found tile ends the loop
NearestVisit(g, n, st, cell, i) ==
    LET nx == cell[1] + NeighborOffsets[i][1]
        ny == cell[2] + NeighborOffsets[i][2]
    IN  IF st[1] # None THEN st
        ELSE IF nx < 0 \/ nx >= n \/ ny < 0 \/ ny >= n THEN st
        ELSE IF <<nx, ny>> \in st[3] THEN st
        ELSE IF ~is_wall(g, n, nx, ny)
             THEN <<<<nx, ny>>, st[2], st[3] \cup {<<nx, ny>>}>>
             ELSE <<None, Append(st[2], <<nx, ny, cell[3] + 1>>), st[3] \cup {<<nx, ny>>}>>

NearestNeighbors(g, n, st, cell) ==
    NearestVisit(g, n, NearestVisit(g, n, NearestVisit(g, n, NearestVisit(g, n, st, cell, 1), cell, 2), cell, 3), cell, 4)

\* find_nearest_walkable_tile, line 214: if dist > max_search_radius: break
radius_exceeded(dist, max_search_radius) == dist > max_search_radius

\* find_nearest_walkable_tile, lines 210-236: one iteration of the while
\* loop on st = <<found tile or None, queue, visited>>; a found tile or an
\* empty queue ends the loop, and break empties the queue
NearestPop(g, n, st, max_search_radius) ==
    IF st[1] # None \/ st[2] = <<>> THEN st
    ELSE IF radius_exceeded(Head(st[2])[3], max_search_radius) THEN <<None, <<>>, st[3]>>
    ELSE NearestNeighbors(g, n, <<None, Tail(st[2]), st[3]>>, Head(st[2]))

RECURSIVE NearestLoop(_, _, _, _, _)
\* find_nearest_walkable_tile, lines 210-239: the while loop, four
\* iterations at a time, and the return None after it
NearestLoop(g, n, queue, visited, max_search_radius) ==
    IF queue = <<>> THEN None
    ELSE CHOOSE r \in { IF st[1] # None THEN st[1]
                        ELSE NearestLoop(g, n, st[2], st[3], max_search_radius) :
                        st \in { NearestPop(g, n,
                                    NearestPop(g, n,
                                      NearestPop(g, n,
                                        NearestPop(g, n, <<None, queue, visited>>, max_search_radius),
                                        max_search_radius),
                                      max_search_radius),
                                    max_search_radius) } } : TRUE

\* variant that never returns the target itself
find_nearest_walkable_tile_search_only(g, n, target_x, target_y, max_search_radius) ==
    NearestLoop(g, n, << <<target_x, target_y, 0>> >>, {<<target_x, target_y>>}, max_search_radius)

find_nearest_walkable_tile(g, n, target_x, target_y, max_search_radius) ==
    IF ~is_wall(g, n, target_x, target_y) THEN <<target_x, target_y>>
    ELSE NearestLoop(g, n, << <<target_x, target_y, 0>> >>, {<<target_x, target_y>>}, max_search_radius)

\* a call find_nearest_walkable_tile(maze, target_x, target_y, max_search_radius)
NearestCall ==
    /\ npc = "call"
    /\ nresult' = find_nearest_walkable_tile(ngrid, NearN, ntarget[1], ntarget[2], nradius)
    /\ npc' = "done"
    /\ UNCHANGED <<ngrid, ntarget, nradius, lvars, vvars, gvars, mvars, avars, evars, qvars, pvars>>

\* the targets of the calls: the tiles of the grid and the ring around it
NearestTargets == ((-1)..NearN) \X ((-1)..NearN)

\* a maze of NearN x NearN tiles, a target and a search radius
NearestInit ==
    /\ LooperIdle
    /\ ValidatorIdle
    /\ GeneratorIdle
    /\ MazeIdle
    /\ AStarIdle
    /\ EnemyIdle
    /\ QueryIdle
    /\ WaypointsIdle
    /\ ngrid \in SparseGrids(NearN, NearSparse)
    /\ ntarget \in NearestTargets
    /\ nradius \in 0..MaxRadius
    /\ npc = "call"
    /\ nresult = None

NearestNext == NearestCall

SpecNearest == NearestInit /\ [][NearestNext]_vars

\* ------------------------------------------------------------------------
\* Maze queries and CollisionManager (src/src/systems/maze.py, collision.py)
\* ------------------------------------------------------------------------

\* variant of can_move_to that also wants the target next to the source
can_move_to_adjacent(g, n, from_x, from_y, to_x, to_y) ==
    /\ Abs(from_x - to_x) + Abs(from_y - to_y) = 1
    /\ ~is_wall(g, n, to_x, to_y)

\* Maze.can_move_to: the target is not a wall
can_move_to(g, n, from_x, from_y, to_x, to_y) == ~is_wall(g, n, to_x, to_y)

\* CollisionManager.can_move_to_tile
can_move_to_tile(g, n, from_tile_x, from_tile_y, to_tile_x, to_tile_y) ==
    can_move_to(g, n, from_tile_x, from_tile_y, to_tile_x, to_tile_y)

\* ------------------------------------------------------------------------
\* Behaviors and Enemy (src/src/ai/behaviors.py, src/src/entities/enemy.py)
\* ------------------------------------------------------------------------

DirectionNames == <<"up", "down", "left", "right">>

\* the tile one step from pos in a direction (Enemy.can_move_in_direction,
\* lines 120-129, and Enemy.move_in_direction, lines 144-151)
StepIn(pos, direction) ==
    IF direction = "up" THEN <<pos[1], pos[2] - 1>>
    ELSE IF direction = "down" THEN <<pos[1], pos[2] + 1>>
    ELSE IF direction = "left" THEN <<pos[1] - 1, pos[2]>>
    ELSE IF direction = "right" THEN <<pos[1] + 1, pos[2]>>
    ELSE pos

\* variant of can_move_in_direction that lets every move pass
can_move_in_direction_always(g, n, pos, direction) == TRUE

\* Enemy.can_move_in_direction
can_move_in_direction(g, n, pos, direction) ==
    LET target == StepIn(pos, direction)
    IN  can_move_to_tile(g, n, pos[1], pos[2], target[1], target[2])

\* WandererBehavior._is_walkable and PatrolBehavior._is_walkable
_is_walkable(g, n, x, y) ==
    IF x < 0 \/ x >= n \/ y < 0 \/ y >= n THEN FALSE ELSE ~is_wall(g, n, x, y)

RECURSIVE WalkDistance(_, _, _, _, _)
\* the number of steps of a shortest walk from the cells of level to goal
\* over walkable tiles, -1 when there is none
WalkDistance(g, n, level, seen, goal) ==
    IF goal \in level THEN 0
    ELSE CHOOSE r \in {
             IF next = {} THEN -1
             ELSE CHOOSE d \in { IF rest = -1 THEN -1 ELSE rest + 1 :
                                   rest \in { WalkDistance(g, n, next, seen \cup next, goal) } } : TRUE :
             next \in { { q \in UNION { { StepIn(p, DirectionNames[i]) : i \in 1..4 } : p \in level } :
                            _is_walkable(g, n, q[1], q[2]) } \ seen } } : TRUE

RECURSIVE ShortestWalks(_, _, _, _, _)
\* the direction sequences of the walks of d steps from start to goal when
\* d is the shortest distance between them
ShortestWalks(g, n, start, goal, d) ==
    IF d = 0 THEN {<<>>}
    ELSE UNION { { <<DirectionNames[i]>> \o w :
                     w \in ShortestWalks(g, n, StepIn(start, DirectionNames[i]), goal, d - 1) } :
                 i \in { j \in 1..4 :
                           LET q == StepIn(start, DirectionNames[j])
                           IN  /\ _is_walkable(g, n, q[1], q[2])
                               /\ WalkDistance(g, n, {q}, {q}, goal) = d - 1 } }

\* find_path_bfs(start_x, start_y, target_x, target_y, is_walkable): the
\* values it may return, the direction sequence of a shortest path (which
\* one depends on the order the neighbours are explored in) or None
find_path_bfs(g, n, start, goal) ==
    UNION { IF d = -1 THEN {NoPath} ELSE ShortestWalks(g, n, start, goal, d) :
            d \in { IF _is_walkable(g, n, goal[1], goal[2])
                    THEN WalkDistance(g, n, {start}, {start}, goal) ELSE -1 } }

\* PatrolBehavior._calculate_quadrant_waypoints, lines 155-164
quadrant_centers(n) ==
    LET half_size == n \div 2
        quarter_size == n \div 4
    IN  << <<quarter_size, quarter_size>>,
           <<half_size + quarter_size, quarter_size>>,
           <<quarter_size, half_size + quarter_size>>,
           <<half_size + quarter_size, half_size + quarter_size>> >>

\* PatrolBehavior._calculate_quadrant_waypoints, line 169: max_search_radius
waypoint_search_radius == 10

\* variant that keeps the quadrant centres as waypoints
_calculate_quadrant_waypoints_centers(g, n) == quadrant_centers(n)

\* PatrolBehavior._calculate_quadrant_waypoints
_calculate_quadrant_waypoints(g, n) ==
    [i \in 1..4 |->
        LET c == quadrant_centers(n)[i]
            walkable == find_nearest_walkable_tile(g, n, c[1], c[2], waypoint_search_radius)
        IN  IF walkable # None THEN walkable ELSE c]

\* WandererBehavior._generate_random_waypoint: the values it may return, the
\* first walkable tile drawn, or None when all 20 draws hit walls
_generate_random_waypoint(g, n) ==
    { p \in Cells(n) : ~is_wall(g, n, p[1], p[2]) }
    \cup (IF \E p \in Cells(n) : is_wall(g, n, p[1], p[2]) THEN {NoTile} ELSE {})

\* Enemy.__init__, lines 42-52: the configuration the model runs under
fps == 2
speed_min == 1
speed_max == 2

\* the fields of a behaviour object (WandererBehavior.__init__ and
\* PatrolBehavior.__init__), as one record
BehaviorState == [waypoints |-> waypoints,
                  current_waypoint_index |-> current_waypoint_index,
                  current_waypoint |-> current_waypoint,
                  cached_path |-> cached_path,
                  path_index |-> path_index]

\* what one call of update leaves: the fields and the value returned
Outcome(b, ret) == [b |-> b, ret |-> ret]

\* update, lines 72, 80 and 211, 217: an outcome together with the locals
\* (target_x, target_y) the call ended with, NoTile when it returned before
\* they were assigned
WithTarget(S, t) == { [b |-> o.b, ret |-> o.ret, target |-> t] : o \in S }

\* variant of FollowPath that keeps the cache when the direction is blocked
FollowPath_keep_cache(g, n, pos, b) ==
    IF b.path_index < Len(b.cached_path)
    THEN LET direction == b.cached_path[b.path_index + 1]
         IN  IF can_move_in_direction(g, n, pos, direction)
             THEN Outcome([b EXCEPT !.path_index = b.path_index + 1], direction)
             ELSE Outcome(b, None)
    ELSE Outcome(b, None)

\* variant of FollowPath that returns the direction and leaves the cursor
FollowPath_no_advance(g, n, pos, b) ==
    IF b.path_index < Len(b.cached_path)
    THEN LET direction == b.cached_path[b.path_index + 1]
         IN  IF can_move_in_direction(g, n, pos, direction)
             THEN Outcome(b, direction)
             ELSE Outcome([b EXCEPT !.cached_path = NoPath, !.path_index = 0], None)
    ELSE Outcome(b, None)

\* update, lines 93-105 and 236-250: follow the cached path one step, after
\* asking the enemy whether the step can be taken
FollowPath(g, n, pos, b) ==
    IF b.path_index < Len(b.cached_path)
    THEN LET direction == b.cached_path[b.path_index + 1]
         IN  IF can_move_in_direction(g, n, pos, direction)
             THEN Outcome([b EXCEPT !.path_index = b.path_index + 1], direction)
             ELSE Outcome([b EXCEPT !.cached_path = NoPath, !.path_index = 0], None)
    ELSE Outcome(b, None)

\* variant of PlanPath that keeps the waypoint when no path exists
PlanPath_keep_waypoint(g, n, pos, b, target, drop_waypoint) ==
    IF b.cached_path = NoPath \/ b.path_index >= Len(b.cached_path)
    THEN { IF p = NoPath
           THEN Outcome([b EXCEPT !.cached_path = NoPath, !.path_index = 0], None)
           ELSE FollowPath(g, n, pos, [b EXCEPT !.cached_path = p, !.path_index = 0]) :
           p \in find_path_bfs(g, n, pos, target) }
    ELSE { FollowPath(g, n, pos, b) }

\* update, lines 82-91 and 222-234: plan a path when none is cached or the
\* cached one is used up; drop_waypoint is the Wanderer's reset of its
\* waypoint when no path exists
PlanPath(g, n, pos, b, target, drop_waypoint) ==
    IF b.cached_path = NoPath \/ b.path_index >= Len(b.cached_path)
    THEN { IF p = NoPath
           THEN Outcome([b EXCEPT !.cached_path = NoPath, !.path_index = 0,
                                  !.current_waypoint =
                                      IF drop_waypoint THEN NoTile ELSE b.current_waypoint],
                        None)
           ELSE FollowPath(g, n, pos, [b EXCEPT !.cached_path = p, !.path_index = 0]) :
           p \in find_path_bfs(g, n, pos, target) }
    ELSE { FollowPath(g, n, pos, b) }

\* variant of PatrolBehavior.update that advances past two waypoints
PatrolBehavior_update_skip(g, n, pos, b) ==
    LET reached == pos = b.waypoints[b.current_waypoint_index + 1]
        b1 == IF reached
              THEN [b EXCEPT !.current_waypoint_index =
                                 (b.current_waypoint_index + 2) % Len(b.waypoints),
                             !.cached_path = NoPath, !.path_index = 0]
              ELSE b
    IN  PlanPath(g, n, pos, b1, b1.waypoints[b1.current_waypoint_index + 1], FALSE)

\* PatrolBehavior.update: the outcomes of one call with the enemy on pos
PatrolBehavior_update(g, n, pos, b) ==
    LET reached == pos = b.waypoints[b.current_waypoint_index + 1]
        b1 == IF reached
              THEN [b EXCEPT !.current_waypoint_index =
                                 (b.current_waypoint_index + 1) % Len(b.waypoints),
                             !.cached_path = NoPath, !.path_index = 0]
              ELSE b
    IN  PlanPath(g, n, pos, b1, b1.waypoints[b1.current_waypoint_index + 1], FALSE)

\* WandererBehavior.update, lines 72-91: with a waypoint in hand
WandererTowards(g, n, pos, b) ==
    IF pos = b.current_waypoint
    THEN UNION { IF w = NoTile
                 THEN WithTarget({ Outcome([b EXCEPT !.current_waypoint = NoTile,
                                                     !.cached_path = NoPath,
                                                     !.path_index = 0], None) },
                                 b.current_waypoint)
                 ELSE WithTarget(PlanPath(g, n, pos,
                                          [b EXCEPT !.current_waypoint = w, !.cached_path = NoPath,
                                                    !.path_index = 0], w, TRUE), w) :
                 w \in _generate_random_waypoint(g, n) }
    ELSE WithTarget(PlanPath(g, n, pos, b, b.current_waypoint, TRUE), b.current_waypoint)

\* WandererBehavior.update: the outcomes of one call with the enemy on pos
WandererBehavior_update(g, n, pos, b) ==
    IF b.current_waypoint = NoTile
    THEN UNION { IF w = NoTile
                 THEN WithTarget({ Outcome(b, None) }, NoTile)
                 ELSE WandererTowards(g, n, pos, [b EXCEPT !.current_waypoint = w]) :
                 w \in _generate_random_waypoint(g, n) }
    ELSE WandererTowards(g, n, pos, b)

\* self.behavior.update of the behaviour the enemy was given
behavior_update(g, n, pos, b) ==
    IF btype = "patrol"
    THEN UNION { WithTarget({o}, o.b.waypoints[o.b.current_waypoint_index + 1]) :
                 o \in PatrolBehavior_update(g, n, pos, b) }
    ELSE WandererBehavior_update(g, n, pos, b)

\* the fields of the behaviour after a call
SetBehavior(b) ==
    /\ waypoints' = b.waypoints
    /\ current_waypoint_index' = b.current_waypoint_index
    /\ current_waypoint' = b.current_waypoint
    /\ cached_path' = b.cached_path
    /\ path_index' = b.path_index

\* variant of move_in_direction that never moves up
move_in_direction_not_up(pos, direction) == IF direction = "up" THEN pos ELSE StepIn(pos, direction)

\* Enemy.move_in_direction
move_in_direction(pos, direction) == StepIn(pos, direction)

\* Enemy.update on a frame that does not reach update_interval
EnemyUpdateWait ==
    /\ frame_counter + 1 < update_interval
    /\ frame_counter' = frame_counter + 1
    /\ UNCHANGED <<egrid, etile, update_interval, btype, waypoints, current_waypoint_index,
                   current_waypoint, cached_path, path_index, bret, btarget,
                   lvars, vvars, gvars, mvars, avars, nvars, qvars, pvars>>

\* Enemy.update on a frame that reaches update_interval: the behaviour is
\* asked for a direction and the enemy moves when it can
EnemyUpdateMove ==
    /\ frame_counter + 1 >= update_interval
    /\ frame_counter' = 0
    /\ \E o \in behavior_update(egrid, maze_grid_size(egrid), etile, BehaviorState) :
          /\ SetBehavior(o.b)
          /\ bret' = o.ret
          /\ btarget' = o.target
          /\ etile' = IF o.ret # None /\ can_move_in_direction(egrid, maze_grid_size(egrid), etile, o.ret)
                      THEN move_in_direction(etile, o.ret)
                      ELSE etile
    /\ UNCHANGED <<egrid, update_interval, btype, lvars, vvars, gvars, mvars, avars, nvars, qvars, pvars>>

\* behavior.update called on its own, as test_patrol_cycling and
\* test_a5_behaviors do: the enemy is not moved
BehaviorUpdate ==
    /\ \E o \in behavior_update(egrid, maze_grid_size(egrid), etile, BehaviorState) :
          /\ SetBehavior(o.b)
          /\ bret' = o.ret
          /\ btarget' = o.target
    /\ UNCHANGED <<egrid, etile, update_interval, frame_counter, btype,
                   lvars, vvars, gvars, mvars, avars, nvars, qvars, pvars>>

\* enemy.tile_x, enemy.tile_y = wx, wy, as test_patrol_cycling does: the
\* enemy is put on a waypoint of its patrol
EnemyPlaced ==
    /\ btype = "patrol"
    /\ \E i \in 1..Len(waypoints) :
          /\ ~is_wall(egrid, maze_grid_size(egrid), waypoints[i][1], waypoints[i][2])
          /\ etile # waypoints[i]
          /\ etile' = waypoints[i]
    /\ UNCHANGED <<egrid, update_interval, frame_counter, btype, waypoints,
                   current_waypoint_index, current_waypoint, cached_path, path_index,
                   bret, btarget, lvars, vvars, gvars, mvars, avars, nvars, qvars, pvars>>

\* Enemy(x, y, config, collision_manager) on a maze: the speed and the
\* behaviour are drawn, the behaviour is constructed
EnemyInit ==
    /\ egrid \in SparseGrids(EnemyN, EnemySparse)
    /\ etile \in { p \in Cells(EnemyN) : ~is_wall(egrid, EnemyN, p[1], p[2]) }
    /\ update_interval \in { fps \div speed : speed \in speed_min..speed_max }
    /\ frame_counter = 0
    /\ btype \in {"wanderer", "patrol"}
    /\ waypoints = IF btype = "patrol" THEN _calculate_quadrant_waypoints(egrid, EnemyN) ELSE <<>>
    /\ current_waypoint_index = 0
    /\ current_waypoint = NoTile
    /\ cached_path = NoPath
    /\ path_index = 0
    /\ bret = None
    /\ btarget = NoTile
    /\ LooperIdle /\ ValidatorIdle /\ GeneratorIdle /\ MazeIdle /\ AStarIdle /\ NearestIdle
    /\ QueryIdle /\ WaypointsIdle

EnemyNext == EnemyUpdateWait \/ EnemyUpdateMove \/ BehaviorUpdate \/ EnemyPlaced

SpecEnemy == EnemyInit /\ [][EnemyNext]_vars

\* an enemy on a static maze of WalkN x WalkN tiles with up to WalkWalls
\* walls, moved by nothing but Enemy.update
WalkInit ==
    /\ egrid \in { GridWith(WalkN, S, WALL, PATH) : S \in SubsetsUpTo(WalkWalls, 0, WalkN * WalkN - 1) }
    /\ etile \in { p \in Cells(WalkN) : ~is_wall(egrid, WalkN, p[1], p[2]) }
    /\ update_interval \in { fps \div speed : speed \in speed_min..speed_max }
    /\ frame_counter = 0
    /\ btype \in {"wanderer", "patrol"}
    /\ waypoints = IF btype = "patrol" THEN _calculate_quadrant_waypoints(egrid, WalkN) ELSE <<>>
    /\ current_waypoint_index = 0
    /\ current_waypoint = NoTile
    /\ cached_path = NoPath
    /\ path_index = 0
    /\ bret = None
    /\ btarget = NoTile
    /\ LooperIdle /\ ValidatorIdle /\ GeneratorIdle /\ MazeIdle /\ AStarIdle /\ NearestIdle
    /\ QueryIdle /\ WaypointsIdle

WalkNext == EnemyUpdateWait \/ EnemyUpdateMove

SpecWalk == WalkInit /\ [][WalkNext]_vars

\* the same enemy with a PatrolBehavior
PatrolWalkInit == WalkInit /\ btype = "patrol"

\* the game loop calls Enemy.update on every frame
FairSpecPatrolWalk == PatrolWalkInit /\ [][WalkNext]_vars /\ WF_vars(WalkNext)

\* ------------------------------------------------------------------------
\* Maze.is_wall and Maze.can_move_to called with any coordinates
\* ------------------------------------------------------------------------

\* the coordinates the queries are made with, beyond the grid on every side
QueryCoords == (0 - QueryMargin)..(QueryN - 1 + QueryMargin)

\* maze.is_wall(x, y)
QueryIsWall ==
    /\ qpc = "call"
    /\ qwall' = is_wall(qgrid, QueryN, qto[1], qto[2])
    /\ qpc' = "is_wall"
    /\ UNCHANGED <<qgrid, qfrom, qto, qmove, lvars, vvars, gvars, mvars, avars, nvars, evars, pvars>>

\* maze.can_move_to(from_x, from_y, to_x, to_y)
QueryCanMoveTo ==
    /\ qpc = "call"
    /\ qmove' = can_move_to(qgrid, QueryN, qfrom[1], qfrom[2], qto[1], qto[2])
    /\ qpc' = "can_move_to"
    /\ UNCHANGED <<qgrid, qfrom, qto, qwall, lvars, vvars, gvars, mvars, avars, nvars, evars, pvars>>

QueryInit ==
    /\ qgrid \in SparseGrids(QueryN, QuerySparse)
    /\ qfrom \in QueryCoords \X QueryCoords
    /\ qto \in QueryCoords \X QueryCoords
    /\ qpc = "call"
    /\ qwall = None
    /\ qmove = None
    /\ LooperIdle /\ ValidatorIdle /\ GeneratorIdle /\ MazeIdle /\ AStarIdle /\ NearestIdle
    /\ EnemyIdle /\ WaypointsIdle

QueryNext == QueryIsWall \/ QueryCanMoveTo

SpecQuery == QueryInit /\ [][QueryNext]_vars

\* ------------------------------------------------------------------------
\* PatrolBehavior.__init__ on a maze of its own size
\* ------------------------------------------------------------------------

\* PatrolBehavior(enemy): the waypoints are computed
PatrolConstruct ==
    /\ ppc = "new"
    /\ pwaypoints' = _calculate_quadrant_waypoints(pgrid, WaypointN)
    /\ ppc' = "constructed"
    /\ UNCHANGED <<pgrid, lvars, vvars, gvars, mvars, avars, nvars, evars, qvars>>

WaypointsInit ==
    /\ pgrid \in SparseGrids(WaypointN, WaypointSparse)
    /\ ppc = "new"
    /\ pwaypoints = <<>>
    /\ LooperIdle /\ ValidatorIdle /\ GeneratorIdle /\ MazeIdle /\ AStarIdle /\ NearestIdle
    /\ EnemyIdle /\ QueryIdle

WaypointsNext == PatrolConstruct

SpecWaypoints == WaypointsInit /\ [][WaypointsNext]_vars

\* ------------------------------------------------------------------------
\* Claims about MazeLooper
\* ------------------------------------------------------------------------
\* C1: for every grid whose PATH cells are mutually reachable,
\* remove_dead_ends terminates: a call that has started leads to its return.
C1_LooperTerminates ==
    (lpc = "scan" /\ lcalls = 1 /\ MutuallyReachable(lgrid0, GridN)) ~> (lpc = "done")

\* C2: whenever remove_dead_ends has returned, no PATH cell of the grid has
\* exactly one in-bounds orthogonal PATH neighbour, and a second call on the
\* result leaves every cell as the first call returned it.
C2_NoDeadEndOnReturn ==
    /\ lpc = "done" => \A p \in Cells(GridN) : ~IsDeadEnd(lgrid, GridN, p)
    /\ lcalls = 2 => lgrid = lsnap

\* the first call carved at least one wall, and the second call has returned
C2_Witness == lpc = "done" /\ lcalls = 2 /\ lgrid # lgrid0

\* ------------------------------------------------------------------------
\* Claims about MazeValidator
\* ------------------------------------------------------------------------
\* C3: is_connected(start, end) returns a boolean, and it returns true iff
\* start = end or end is reached from start by 4-directional steps that only
\* enter PATH cells, the step onto end included.
C3_IsConnectedIffReachable ==
    vpc = "is_connected" =>
        /\ vres \in BOOLEAN
        /\ vres = (vend \in Reach(vgrid, ValN, vstart))

\* C4: is_fully_traversable(start) returns true iff every PATH cell of the
\* grid is reached from start by 4-directional steps over PATH cells,
\* whether start holds PATH or WALL.
C4_FullyTraversableIffNoPocket ==
    vpc = "is_fully_traversable" =>
        vres = (PathCells(vgrid, ValN) \subseteq Reach(vgrid, ValN, vstart))

\* ------------------------------------------------------------------------
\* Claims about the generators
\* ------------------------------------------------------------------------
\* the grid equals its mirror image across the centre column (vertical) or
\* the centre row (horizontal)
IsMirrored(g, n, is_vertical) ==
    \A i \in 0..(n-1), j \in 0..(n-1) :
        IF is_vertical THEN g[j][i] = g[j][n - 1 - i] ELSE g[i][j] = g[n - 1 - i][j]

\* C5: the grid returned by generate(N), N odd, of each of the four
\* generators is exactly mirrored across its axis, MazeType2's grid after its
\* seam-connector pass.
C5_GeneratedGridMirrored ==
    gpc = "done" => IsMirrored(ggrid, GenN, gvert)

\* MazeType2 has returned a grid in which the connector opened a cell of the
\* centre line and the carved half is not symmetric in itself
C5_Witness ==
    /\ gpc = "done"
    /\ gtype = 2
    /\ \E i \in 0..(GenN - 1) : i % 2 = 1 /\
          (IF gvert THEN ggrid[i][GenN \div 2] ELSE ggrid[GenN \div 2][i]) = PATH
    /\ \E i \in 0..(GenN - 1) :
          (IF gvert THEN ggrid[i][0] # ggrid[i][1] ELSE ggrid[0][i] # ggrid[1][i])

\* ------------------------------------------------------------------------
\* Claims about Maze
\* ------------------------------------------------------------------------

\* _generate has returned, by an accepted attempt or by the fallback
MazeConstructed == mpc \in {"done", "fallback"}

\* C6: after construction start_pos and end_pos are two distinct in-bounds
\* coordinates and the final grid holds PATH at both, however many attempts
\* were rejected before
C6_StartEndDistinctPath ==
    MazeConstructed =>
        /\ mstart # mend
        /\ IsPathCell(mgrid, grid_size, mstart)
        /\ IsPathCell(mgrid, grid_size, mend)

\* C7: after construction end_pos is reachable from start_pos by
\* 4-directional steps that enter PATH cells of the final grid
C7_EndReachableFromStart ==
    MazeConstructed => mend \in Reach(mgrid, grid_size, mstart)

\* an attempt that carved a pattern of corridors is accepted after an
\* earlier attempt was rejected
C7_Witness ==
    /\ mpc = "done"
    /\ mattempt = 1
    /\ miter = 1
    /\ IsPathCell(mgrid, grid_size, mstart)
    /\ mstart # mend
    /\ mend \in Reach(mgrid, grid_size, mstart)

\* C8: after construction every PATH cell of the final grid is reachable
\* from start_pos by steps that enter PATH cells: there is no isolated pocket
C8_NoIsolatedPocket ==
    MazeConstructed => PathCells(mgrid, grid_size) \subseteq Reach(mgrid, grid_size, mstart)

\* an accepted grid with carved corridors between the chambers, walls left,
\* and all of its PATH cells reached from start_pos
C8_Witness ==
    /\ mpc = "done"
    /\ miter >= 1
    /\ Cardinality(PathCells(mgrid, grid_size)) > 16
    /\ Cardinality(PathCells(mgrid, grid_size)) < grid_size * grid_size
    /\ PathCells(mgrid, grid_size) \subseteq Reach(mgrid, grid_size, mstart)

\* the state _generate returns in when no attempt was accepted
IsFallbackMaze ==
    /\ mgrid = FilledGrid(grid_size, PATH)
    /\ mstart = <<1, 1>>
    /\ mend = <<grid_size - 2, grid_size - 2>>

\* C9: at most generation_attempts attempts are made, and when all of them
\* were rejected the construction ends with every cell PATH,
\* start_pos = (1, 1) and end_pos = (N-2, N-2)
C9_AttemptsBoundedThenFallback ==
    /\ [](/\ mattempt <= generation_attempts
          /\ (mpc \in {"carve", "done"} => mattempt < generation_attempts)
          /\ (mpc = "fallback" => IsFallbackMaze))
    /\ [][(mpc = "attempt" /\ mattempt >= generation_attempts)
             => (mpc' = "fallback" /\ IsFallbackMaze')]_vars

\* the fallback is reached after generation_attempts rejected attempts
C9_Witness ==
    /\ mpc = "fallback"
    /\ mattempt = generation_attempts
    /\ IsFallbackMaze
    /\ minternal # <<>>

\* ------------------------------------------------------------------------
\* Claims about AStarPathfinder
\* ------------------------------------------------------------------------

RECURSIVE BfsLevels(_, _, _, _, _)
\* the breadth-first distance from the cells of `level` (at distance d) to
\* goal over walkable tiles, -1 when goal is not reached
BfsLevels(g, n, level, seen, goal) ==
    IF goal \in level THEN 0
    ELSE LET next == UNION { PathNeighbours(g, n, p) : p \in level } \ seen
         IN  IF next = {} THEN -1
             ELSE LET rest == BfsLevels(g, n, next, seen \cup next, goal)
                  IN  IF rest = -1 THEN -1 ELSE rest + 1

BfsDistance(g, n, start, goal) == BfsLevels(g, n, {start}, {start}, goal)

\* C10: whenever find_path returns a path between walkable start and goal,
\* its number of steps (length minus one) is the breadth-first
\* shortest-path distance from start to goal
C10_PathLengthIsBfsDistance ==
    (apc = "done" /\ aresult # None) =>
        Len(aresult) - 1 = BfsDistance(agrid, maze_grid_size(agrid), astart, agoal)

\* what the code does: a returned path is a chain of walkable tiles from
\* start to goal with no tile twice, so it has at least as many steps as
\* the breadth-first distance and fewer than there are walkable tiles
ReturnedPathIsSimple ==
    (apc = "done" /\ aresult # None) =>
        /\ Len(aresult) - 1 >= BfsDistance(agrid, maze_grid_size(agrid), astart, agoal)
        /\ \A i, j \in 1..Len(aresult) : aresult[i] = aresult[j] => i = j

\* ------------------------------------------------------------------------
\* Claims about find_nearest_walkable_tile
\* ------------------------------------------------------------------------

\* the tiles of the grid that are not walls
WalkableTiles(g, n) == { p \in Cells(n) : ~is_wall(g, n, p[1], p[2]) }

\* C11: with a non-walkable target, a returned tile is never more than
\* max_search_radius hops (Manhattan distance) away from the target
C11_NeverBeyondRadius ==
    (npc = "done" /\ is_wall(ngrid, NearN, ntarget[1], ntarget[2]) /\ nresult # None)
        => _heuristic(nresult, ntarget) <= nradius

\* C19: a walkable target is returned itself; otherwise a returned tile is
\* in bounds, not a wall, and no walkable tile is strictly closer to the
\* target in Manhattan distance
C19_NearestIsTargetOrClosest ==
    npc = "done" =>
        IF ~is_wall(ngrid, NearN, ntarget[1], ntarget[2])
        THEN nresult = ntarget
        ELSE nresult # None =>
                /\ InBounds(NearN, nresult)
                /\ ~is_wall(ngrid, NearN, nresult[1], nresult[2])
                /\ \A p \in WalkableTiles(ngrid, NearN) :
                      _heuristic(p, ntarget) >= _heuristic(nresult, ntarget)

\* a search from a wall target that passed a ring of walls and chose the
\* closer of two walkable tiles at different distances
C19_Witness ==
    /\ npc = "done"
    /\ is_wall(ngrid, NearN, ntarget[1], ntarget[2])
    /\ nresult # None
    /\ _heuristic(nresult, ntarget) >= 2
    /\ \E p \in WalkableTiles(ngrid, NearN) : _heuristic(p, ntarget) > _heuristic(nresult, ntarget)

\* ------------------------------------------------------------------------
\* Claims about the behaviours and the enemy
\* ------------------------------------------------------------------------

\* a step in which update of the enemy's behaviour is called
BehaviorCalled == BehaviorUpdate \/ EnemyUpdateMove

\* the enemy stands on the waypoint its patrol is heading for
OnPatrolWaypoint == etile = waypoints[current_waypoint_index + 1]

\* C12: in PatrolBehavior, current_waypoint_index changes only in an update
\* call that finds the enemy on the current waypoint; such a call advances it
\* by one modulo 4 and leaves no path cached for the previous waypoint (the
\* cache then holds what find_path_bfs gives from the enemy's tile to the new
\* waypoint), so the waypoints are targeted in the order 0, 1, 2, 3, 0, ...
C12_WaypointIndexCycles ==
    [][btype = "patrol" =>
          /\ current_waypoint_index' # current_waypoint_index => OnPatrolWaypoint /\ BehaviorCalled
          /\ OnPatrolWaypoint =>
                \/ /\ current_waypoint_index' = (current_waypoint_index + 1) % 4
                   /\ cached_path' \in find_path_bfs(egrid, EnemyN, etile,
                                                     waypoints[current_waypoint_index' + 1])
                   /\ path_index' = IF bret' = None THEN 0 ELSE 1
                \/ ~BehaviorCalled]_vars

\* a patrol that has gone through waypoints 0, 1 and 2 stands on waypoint 3
\* with a path in its cache
C12_Witness ==
    /\ btype = "patrol"
    /\ current_waypoint_index = 3
    /\ OnPatrolWaypoint
    /\ cached_path # NoPath
    /\ Len(cached_path) > 0

\* the behaviour is about to follow its cached path
FollowsCache ==
    /\ cached_path # NoPath
    /\ path_index < Len(cached_path)
    /\ IF btype = "patrol" THEN ~OnPatrolWaypoint
       ELSE current_waypoint # NoTile /\ etile # current_waypoint

\* the next cached direction is blocked for the enemy where it stands
NextDirectionBlocked ==
    /\ FollowsCache
    /\ ~can_move_in_direction(egrid, EnemyN, etile, cached_path[path_index + 1])

\* C13: every direction update returns satisfies can_move_in_direction on the
\* tile the enemy has at that call; when the next cached direction is blocked
\* update returns None, sets cached_path to None and path_index to 0, and the
\* enemy is still short of its waypoint; the update that finds the cache
\* cleared in that way plans a path from the enemy's current tile
C13_DirectionsValidated ==
    [][\/ /\ bret' # None => can_move_in_direction(egrid, EnemyN, etile, bret')
          /\ NextDirectionBlocked =>
                /\ bret' = None
                /\ cached_path' = NoPath
                /\ path_index' = 0
                /\ btype = "wanderer" => current_waypoint' # NoTile /\ etile' # current_waypoint'
          /\ (/\ cached_path = NoPath
              /\ path_index = 0
              /\ btype = "wanderer" => current_waypoint # NoTile /\ etile # current_waypoint) =>
                /\ cached_path' \in find_path_bfs(egrid, EnemyN, etile,
                                       IF btype = "patrol"
                                       THEN waypoints[current_waypoint_index' + 1]
                                       ELSE current_waypoint)
                /\ path_index' = IF bret' = None THEN 0 ELSE 1
       \/ ~BehaviorCalled]_vars

\* a behaviour whose next cached direction is blocked
C13_Witness == NextDirectionBlocked

\* C17: an enemy that starts on an in-bounds tile that is not a wall is on
\* such a tile after every update, and an update moves it by at most one
\* step in one of the four directions
C17_EnemyStaysOnWalkableTile ==
    /\ [](/\ InBounds(EnemyN, etile)
          /\ egrid[etile[2]][etile[1]] # WALL)
    /\ [][\/ etile' = etile
          \/ \E i \in 1..4 : etile' = StepIn(etile, DirectionNames[i])
          \/ ~(EnemyUpdateWait \/ EnemyUpdateMove)]_vars

\* a patrol that update has led along a cached path of two steps onto its
\* waypoint
C17_Witness ==
    /\ btype = "patrol"
    /\ bret # None
    /\ cached_path # NoPath
    /\ Len(cached_path) = 2
    /\ path_index = 2
    /\ OnPatrolWaypoint

\* ------------------------------------------------------------------------
\* Claims about Maze.is_wall and Maze.can_move_to
\* ------------------------------------------------------------------------

\* C14: for all integer coordinates is_wall(x, y) returns a boolean, TRUE
\* exactly when (x, y) is out of bounds or the cell holds WALL, and
\* can_move_to(from, to) returns a boolean, TRUE exactly when to is in
\* bounds and does not hold WALL, whatever from is
C14_WallQueriesTotal ==
    /\ qpc = "is_wall" =>
          /\ qwall \in BOOLEAN
          /\ qwall <=> (~InBounds(QueryN, qto) \/ qgrid[qto[2]][qto[1]] = WALL)
    /\ qpc = "can_move_to" =>
          /\ qmove \in BOOLEAN
          /\ qmove <=> (InBounds(QueryN, qto) /\ qgrid[qto[2]][qto[1]] # WALL)

\* can_move_to has allowed a move from outside the grid to an open tile
\* that is not next to it
C14_Witness ==
    /\ qpc = "can_move_to"
    /\ ~InBounds(QueryN, qfrom)
    /\ Abs(qfrom[1] - qto[1]) + Abs(qfrom[2] - qto[2]) > 1
    /\ qmove = TRUE

\* ------------------------------------------------------------------------
\* Claims about the failure of find_path
\* ------------------------------------------------------------------------

\* a position outside the grid or on a wall
InvalidPosition(g, n, pos) == ~InBounds(n, pos) \/ g[pos[2]][pos[1]] = WALL

\* C15: find_path returns None exactly when start or goal is out of bounds
\* or a wall, or goal cannot be reached from start over walkable tiles; in
\* every other case it returns a path, a sequence of tiles from start to goal
C15_NoneIffInvalidOrUnreachable ==
    apc = "done" =>
        IF \/ InvalidPosition(agrid, AStarN, astart)
           \/ InvalidPosition(agrid, AStarN, agoal)
           \/ agoal \notin Reach(agrid, AStarN, astart)
        THEN aresult = None
        ELSE /\ aresult # None
             /\ Len(aresult) >= 1
             /\ aresult[1] = astart
             /\ aresult[Len(aresult)] = agoal

\* find_path has returned None for two open tiles that walls keep apart
C15_Witness ==
    /\ apc = "done"
    /\ aresult = None
    /\ ~InvalidPosition(agrid, AStarN, astart)
    /\ ~InvalidPosition(agrid, AStarN, agoal)
    /\ agoal \notin Reach(agrid, AStarN, astart)

\* ------------------------------------------------------------------------
\* Claims about the waypoints of PatrolBehavior
\* ------------------------------------------------------------------------

\* C16: on every maze with at least one walkable tile PatrolBehavior has
\* exactly 4 waypoints, the i-th computed from the centre of the i-th
\* quadrant, and each of them is an in-bounds tile that is not a wall
C16_WaypointsWalkable ==
    (ppc = "constructed" /\ WalkableTiles(pgrid, WaypointN) # {}) =>
        /\ Len(pwaypoints) = 4
        /\ \A i \in 1..4 :
              /\ InBounds(WaypointN, pwaypoints[i])
              /\ pgrid[pwaypoints[i][2]][pwaypoints[i][1]] # WALL

\* ------------------------------------------------------------------------
\* Claims about the seam between the mirrored halves
\* ------------------------------------------------------------------------

\* the coordinate of a cell across the mirror axis
AcrossAxis(p, is_vertical) == IF is_vertical THEN p[1] ELSE p[2]

\* some PATH cell before the centre line reaches a PATH cell behind it
HalvesConnected(g, n, is_vertical) ==
    \E p \in PathCells(g, n) :
        /\ AcrossAxis(p, is_vertical) < n \div 2
        /\ \E q \in Reach(g, n, p) : AcrossAxis(q, is_vertical) > n \div 2

\* every cell of the centre line is WALL
CentreLineAllWall(g, n, is_vertical) ==
    \A p \in Cells(n) : AcrossAxis(p, is_vertical) = n \div 2 => g[p[2]][p[1]] = WALL

\* C20: generate of MazeType2, MazeType3 and MazeType4 ends with a
\* seam-connector step after the mirror: the step that completes generate is
\* a step of the connector pass over the centre line
C20_SeamConnectorApplied ==
    [][(gtype \in 2..4 /\ gpc # "done" /\ gpc' = "done") => Gen2Connect]_vars

\* every grid MazeType4.generate returns at this size has an all-WALL centre
\* line and no PATH connection between its halves
SidewinderHalvesSplit ==
    (gpc = "done" /\ gtype = 4) =>
        /\ CentreLineAllWall(ggrid, GenN, gvert)
        /\ ~HalvesConnected(ggrid, GenN, gvert)

\* ------------------------------------------------------------------------
\* Claims about the grids of MazeType1
\* ------------------------------------------------------------------------

\* one PATH cell reaches every PATH cell; as the steps over PATH cells can
\* be walked both ways this is the same as all PATH cells being mutually
\* reachable
ReachableFromOne(g, n) ==
    PathCells(g, n) = {} \/ \E p \in PathCells(g, n) : Reach(g, n, p) = PathCells(g, n)

\* C18: every grid MazeType1.generate(N) returns, N odd and
\* 1 <= min_wall_length <= max_wall_length < N, is fully traversable: all
\* its PATH cells are mutually reachable over PATH cells, and the validator
\* accepts it for every PATH start and every PATH end
C18_ScatteredWallsTraversable ==
    (gpc = "done" /\ gtype = 1) =>
        /\ GenN % 2 = 1
        /\ 1 <= min_wall_length /\ min_wall_length <= max_wall_length /\ max_wall_length < GenN
        /\ ReachableFromOne(ggrid, GenN)
        /\ \A start \in PathCells(ggrid, GenN) :
              /\ is_fully_traversable(ggrid, GenN, start)
              /\ \A end \in PathCells(ggrid, GenN) : is_connected(ggrid, GenN, start, end)

\* MazeType1 has returned a grid that has a wall of two cells or more and a
\* wall of one cell with no wall beside it
C18_Witness ==
    /\ gpc = "done"
    /\ gtype = 1
    /\ \E p \in Cells(GenN) :
          /\ ggrid[p[2]][p[1]] = WALL
          /\ \E i \in 1..4 : InBounds(GenN, Add(p, Dirs4[i]))
                /\ ggrid[Add(p, Dirs4[i])[2]][Add(p, Dirs4[i])[1]] = WALL
    /\ \E p \in Cells(GenN) :
          /\ ggrid[p[2]][p[1]] = WALL
          /\ \A i \in 1..4 : InBounds(GenN, Add(p, Dirs4[i]))
                => ggrid[Add(p, Dirs4[i])[2]][Add(p, Dirs4[i])[1]] = PATH

\* ------------------------------------------------------------------------
\* Claims about the carves of MazeLooper.remove_dead_ends
\* ------------------------------------------------------------------------

\* the cells whose value differs between two grids
ChangedCells(g, h, n) == { p \in Cells(n) : g[p[2]][p[1]] # h[p[2]][p[1]] }

DeadEndCount(g, n) == Len(_find_dead_ends(g, n))

\* C21: every carve of remove_dead_ends lowers the number of dead ends of
\* the grid by at least one, and the carved cell has two PATH neighbours or
\* more once it is carved
C21_CarveReducesDeadEnds ==
    [][lgrid' # lgrid =>
          /\ DeadEndCount(lgrid', GridN) < DeadEndCount(lgrid, GridN)
          /\ \A p \in ChangedCells(lgrid, lgrid', GridN) :
                open_count(lgrid', GridN, p[1], p[2]) >= 2]_vars

\* the cell next to d in direction i and the cell behind that one
WallCell(d, i) == Add(d, Dirs4[i])

BeyondCell(d, i) == Add(Add(d, Dirs4[i]), Dirs4[i])

\* the directions, as indices of N, E, S, W, whose adjacent cell is an
\* in-bounds WALL and whose cell two steps away is an in-bounds PATH
CarveCandidates(g, n, d) ==
    { i \in 1..4 : /\ InBounds(n, WallCell(d, i))
                   /\ g[WallCell(d, i)[2]][WallCell(d, i)[1]] = WALL
                   /\ IsPathCell(g, n, BeyondCell(d, i)) }

\* the candidates whose beyond-cell can be reached from d over PATH cells
ReachableCandidates(g, n, d) ==
    { i \in CarveCandidates(g, n, d) : BfsDistance(g, n, d, BeyondCell(d, i)) >= 0 }

\* the direction of C with the greatest distance from d to its beyond-cell,
\* the earliest of them in the order N, E, S, W
FarthestOf(g, n, d, C) ==
    CHOOSE i \in C : \A j \in C :
        \/ BfsDistance(g, n, d, BeyondCell(d, i)) > BfsDistance(g, n, d, BeyondCell(d, j))
        \/ /\ BfsDistance(g, n, d, BeyondCell(d, i)) = BfsDistance(g, n, d, BeyondCell(d, j))
           /\ i <= j

\* the for loop of remove_dead_ends is at a cell that is a dead end
FixAtDeadEnd == lpc = "fix" /\ ldead # <<>> /\ IsDeadEnd(lgrid, GridN, Head(ldead))

\* _find_longest_cycle_wall returns the farthest direction of C, None when C
\* is empty, and the step of remove_dead_ends flips that wall cell and no other
CarvesFarthestOf(C) ==
    LET d == Head(ldead)
    IN  IF C = {}
        THEN /\ _find_longest_cycle_wall(lgrid, GridN, d) = None
             /\ lgrid' = lgrid
        ELSE LET i == FarthestOf(lgrid, GridN, d, C)
             IN  /\ _find_longest_cycle_wall(lgrid, GridN, d) # None
                 /\ _find_longest_cycle_wall(lgrid, GridN, d) = Dirs4[i]
                 /\ ChangedCells(lgrid, lgrid', GridN) = {WallCell(d, i)}
                 /\ lgrid'[WallCell(d, i)[2]][WallCell(d, i)[1]] = PATH

\* C22: for a dead end d the directions considered are those with
\* an in-bounds WALL next to d and an in-bounds PATH behind it, the one with
\* the greatest path distance from d to the beyond-cell is returned, the
\* earliest in the order N, E, S, W on ties, and that wall cell is flipped
C22_FarthestCandidateCarved ==
    [][(FixAtDeadEnd /\ ldead' # ldead) =>
          CarvesFarthestOf(CarveCandidates(lgrid, GridN, Head(ldead)))]_vars

\* what the code does: only the candidates whose beyond-cell is reachable
\* from d over PATH cells count; when there is none, None is returned and no
\* cell is flipped
FarthestReachableCarved ==
    [][(FixAtDeadEnd /\ ldead' # ldead) =>
          CarvesFarthestOf(ReachableCandidates(lgrid, GridN, Head(ldead)))]_vars

\* C28: when the grid is left-right mirror symmetric at the call of
\* remove_dead_ends (cell[j][i] = cell[j][N-1-i] for all i, j) it is
\* left-right mirror symmetric when the call returns
C28_LooperKeepsMirror ==
    (lpc = "done" /\ IsMirrored(lgrid0, MirrorN, TRUE)) => IsMirrored(lgrid, MirrorN, TRUE)

\* the grid is fully traversable from s: every PATH cell is reached from s
\* the start cells from which every PATH cell of g is reached: steps over
\* PATH cells can be walked back, so these are all PATH cells when one of
\* them reaches all the others, and none otherwise
TraversableStarts(g, n) ==
    IF /\ PathCells(g, n) # {}
       /\ Reach(g, n, CHOOSE p \in PathCells(g, n) : TRUE) = PathCells(g, n)
    THEN PathCells(g, n) ELSE {}

\* C29: remove_dead_ends never turns a PATH cell into a WALL; every cell it
\* changes was a WALL, is PATH afterwards and is orthogonally adjacent to a
\* cell that was PATH before; and every start cell the grid was fully
\* traversable from before the call is one it is fully traversable from
\* after every carve
C29_CarvesKeepTraversable ==
    [][lgrid' # lgrid =>
          /\ \A p \in PathCells(lgrid, GridN) : lgrid'[p[2]][p[1]] = PATH
          /\ \A p \in ChangedCells(lgrid, lgrid', GridN) :
                /\ lgrid[p[2]][p[1]] = WALL
                /\ lgrid'[p[2]][p[1]] = PATH
                /\ \E i \in 1..4 : IsPathCell(lgrid, GridN, Add(p, Dirs4[i]))
          /\ TraversableStarts(lgrid0, GridN) \subseteq TraversableStarts(lgrid', GridN)]_vars

\* a call on a fully traversable grid has carved two walls or more and has
\* returned
C29_Witness ==
    /\ lpc = "done"
    /\ MutuallyReachable(lgrid0, GridN)
    /\ Cardinality(ChangedCells(lgrid0, lgrid, GridN)) >= 2
    /\ MutuallyReachable(lgrid, GridN)

\* ------------------------------------------------------------------------
\* Claims about the paths of AStarPathfinder.find_path
\* ------------------------------------------------------------------------

\* two tiles that share a side
Adjacent4(p, q) == Abs(p[1] - q[1]) + Abs(p[2] - q[2]) = 1

\* C26: a path returned by find_path begins with start, ends with goal,
\* holds only in-bounds tiles that are not walls, and two consecutive tiles
\* of it share a side; for a walkable start = goal it is <<start>>
C26_PathIsWalkableChain ==
    (apc = "done" /\ aresult # None) =>
        /\ Len(aresult) >= 1
        /\ aresult[1] = astart
        /\ aresult[Len(aresult)] = agoal
        /\ \A i \in 1..Len(aresult) : ~InvalidPosition(agrid, AStarN, aresult[i])
        /\ \A i \in 1..(Len(aresult) - 1) : Adjacent4(aresult[i], aresult[i + 1])
        /\ (astart = agoal => aresult = <<astart>>)

\* find_path has returned a path that goes around a wall
C26_Witness ==
    /\ apc = "done"
    /\ aresult # None
    /\ Len(aresult) > _heuristic(astart, agoal) + 1

\* find_path has returned the single-tile path for start = goal
C26_WitnessSame ==
    /\ apc = "done"
    /\ aresult # None
    /\ astart = agoal
    /\ aresult = <<astart>>

\* ------------------------------------------------------------------------
\* Claims about the half-region of MazeType2 and MazeType3 before the mirror
\* ------------------------------------------------------------------------

\* the pairs of side-adjacent PATH cells, each counted once (east and south)
PathEdges(g, n) ==
    { e \in PathCells(g, n) \X {2, 3} : IsPathCell(g, n, Add(e[1], Dirs4[e[2]])) }

\* the PATH cells form a tree: connected, and one edge less than cells
IsTree(g, n) ==
    /\ PathCells(g, n) # {}
    /\ ReachableFromOne(g, n)
    /\ Cardinality(PathEdges(g, n)) = Cardinality(PathCells(g, n)) - 1

\* the cells MazeType2.generate visits
Type2CellSet == { Type2Cells(GenN, half_size_of(GenN), gvert)[k] :
                    k \in 1..Len(Type2Cells(GenN, half_size_of(GenN), gvert)) }

\* the passages of a cell of MazeType2 that are PATH: north and west
OpenPassages(g, c) ==
    { q \in {<<c[1], c[2] - 1>>, <<c[1] - 1, c[2]>>} : IsPathCell(g, GenN, q) }

\* the double loop of MazeType2.generate is over and _mirror has not run
Type2BeforeMirror ==
    /\ gtype = 2
    /\ gpc = "t2_cells"
    /\ gloc.k > Len(Type2Cells(GenN, half_size_of(GenN), gvert))

\* C24: before the mirror the half-region of MazeType2.generate is a
\* spanning tree over its even-coordinate cells: every such cell is PATH,
\* every one but (0, 0) has exactly one open passage, north or west of it
\* and inside the half-region, (0, 0) has none, nothing else is PATH, all
\* PATH cells are reached from (0, 0) and they hold no cycle
C24_HalfRegionIsSpanningTree ==
    Type2BeforeMirror =>
        /\ \A c \in Type2CellSet : ggrid[c[2]][c[1]] = PATH
        /\ \A c \in Type2CellSet :
              /\ Cardinality(OpenPassages(ggrid, c)) = (IF c = <<0, 0>> THEN 0 ELSE 1)
              /\ \A q \in OpenPassages(ggrid, c) :
                    _is_in_generation_area(q[1], q[2], half_size_of(GenN), gvert)
        /\ PathCells(ggrid, GenN) =
              Type2CellSet \cup UNION { OpenPassages(ggrid, c) : c \in Type2CellSet }
        /\ Reach(ggrid, GenN, <<0, 0>>) = PathCells(ggrid, GenN)
        /\ IsTree(ggrid, GenN)

\* before the mirror, with a cell that went north and a cell that went west
\* where both ways were open
C24_Witness ==
    /\ Type2BeforeMirror
    /\ ggrid[1][2] = PATH
    /\ ggrid[2][1] = WALL
    /\ ggrid[4][1] = PATH
    /\ ggrid[3][2] = WALL

\* the odd-coordinate cells of the generation area of MazeType3
Type3CellSet ==
    { p \in Cells(GenN) : /\ p[1] % 2 = 1 /\ p[2] % 2 = 1
                          /\ _is_in_generation_area(p[1], p[2], half_size_of(GenN), gvert) }

\* _hunt returns None: _hunt_and_kill ends and the mirror has not run
Type3BeforeMirror ==
    /\ gtype = 3
    /\ gpc = "t3_hunt"
    /\ HuntCandidates(gloc.visited, GenN, half_size_of(GenN), gvert) = <<>>

\* when _hunt_and_kill ends, every odd-coordinate cell of the half-region is
\* visited and PATH, the opened wall cells are one less than those cells,
\* and the PATH cells are connected and hold no cycle
Type3PerfectBeforeMirror ==
    Type3BeforeMirror =>
        /\ gloc.visited = Type3CellSet
        /\ Type3CellSet \subseteq PathCells(ggrid, GenN)
        /\ Cardinality(PathCells(ggrid, GenN) \ Type3CellSet) = Cardinality(Type3CellSet) - 1
        /\ IsTree(ggrid, GenN)

\* C23: for every sequence of random choices MazeType3._hunt_and_kill
\* terminates, and when it does the half-region is a perfect maze before
\* the mirror: all its odd-coordinate cells visited and PATH, one opened
\* wall cell less than cells, connected and acyclic
C23_HuntAndKillEndsPerfect ==
    /\ []Type3PerfectBeforeMirror
    /\ <>(gpc = "done")

\* _hunt_and_kill has ended after a hunt that found a cell: a row of the
\* half-region was left by the walks and joined by _hunt
C23_Witness ==
    /\ Type3BeforeMirror
    /\ gloc.visited = Type3CellSet
    /\ \E p \in Type3CellSet :
          Cardinality(PathNeighbours(ggrid, GenN, p)) >= 3

\* ------------------------------------------------------------------------
\* Claims about an enemy that only Enemy.update moves
\* ------------------------------------------------------------------------

\* the tile the behaviour is heading for: the waypoint of the Wanderer, the
\* waypoint at current_waypoint_index of the Patrol
CurrentTarget ==
    IF btype = "patrol" THEN waypoints[current_waypoint_index + 1] ELSE current_waypoint

RECURSIVE WalkEnd(_, _, _, _)
\* the tile reached from pos by the directions dirs when every tile
\* stepped on is walkable, NoTile otherwise
WalkEnd(g, n, pos, dirs) ==
    IF dirs = <<>> THEN pos
    ELSE LET q == StepIn(pos, Head(dirs))
         IN  IF _is_walkable(g, n, q[1], q[2]) THEN WalkEnd(g, n, q, Tail(dirs)) ELSE NoTile

\* C30: whenever the behaviour holds a cached_path, path_index is within
\* 0..len(cached_path) and the directions from path_index on lead from the
\* enemy's tile over walkable tiles exactly to the current waypoint
C30_CachedPathLeadsToWaypoint ==
    cached_path # NoPath =>
        /\ 0 <= path_index
        /\ path_index <= Len(cached_path)
        /\ CurrentTarget # NoTile
        /\ WalkEnd(egrid, WalkN, etile,
                   SubSeq(cached_path, path_index + 1, Len(cached_path))) = CurrentTarget

\* the enemy is two steps along a cached path that has more steps to go,
\* around a wall
C30_Witness ==
    /\ cached_path # NoPath
    /\ path_index = 2
    /\ Len(cached_path) >= 4
    /\ etile # CurrentTarget

\* the open tiles that cannot be reached from the enemy's tile
UnreachableTiles ==
    { p \in Cells(WalkN) : ~is_wall(egrid, WalkN, p[1], p[2]) } \ Reach(egrid, WalkN, etile)

\* the call of the behaviour by Enemy.update
WandererCalled == btype = "wanderer" /\ frame_counter + 1 >= update_interval

\* C27: the waypoint of a WandererBehavior is None or an in-bounds tile
\* that is not a wall; an update whose 20 draws all hit walls returns None
\* and leaves no waypoint; an update whose target cannot be reached returns
\* None, holds no path and drops the waypoint; an update with a waypoint to
\* which no path exists has that one outcome; and the update after a drop
\* draws again, keeping the tile drawn only with a path to it
C27_WaypointNoneOrWalkable ==
    [][btype = "wanderer" =>
        /\ current_waypoint' # NoTile =>
              _is_walkable(egrid, WalkN, current_waypoint'[1], current_waypoint'[2])
        /\ \A w \in UnreachableTiles :
              PlanPath(egrid, WalkN, etile,
                       [BehaviorState EXCEPT !.current_waypoint = w, !.cached_path = NoPath,
                                             !.path_index = 0], w, TRUE)
              = { Outcome([BehaviorState EXCEPT !.current_waypoint = NoTile,
                                                !.cached_path = NoPath, !.path_index = 0], None) }
        /\ (WandererCalled /\ current_waypoint' = NoTile) =>
              bret' = None /\ cached_path' = NoPath
        /\ (WandererCalled /\ btarget' = NoTile) =>
              /\ current_waypoint = NoTile
              /\ NoTile \in _generate_random_waypoint(egrid, WalkN)
              /\ bret' = None
              /\ current_waypoint' = NoTile
        /\ (WandererCalled /\ btarget' # NoTile /\ btarget' \notin Reach(egrid, WalkN, etile)) =>
              /\ bret' = None
              /\ cached_path' = NoPath
              /\ current_waypoint' = NoTile
        /\ (WandererCalled /\ current_waypoint = NoTile /\ btarget' # NoTile) =>
              btarget' \in _generate_random_waypoint(egrid, WalkN)
        /\ (WandererCalled /\ current_waypoint = NoTile /\ current_waypoint' # NoTile) =>
              /\ current_waypoint' \in _generate_random_waypoint(egrid, WalkN)
              /\ current_waypoint' \in Reach(egrid, WalkN, etile)
              /\ cached_path' # NoPath]_vars

\* a Wanderer after an update that drew an open tile it cannot reach, found
\* no path to it, returned None and dropped it
C27_Witness ==
    /\ btype = "wanderer"
    /\ btarget # NoTile
    /\ btarget \in UnreachableTiles
    /\ current_waypoint = NoTile
    /\ cached_path = NoPath
    /\ bret = None
    /\ Cardinality(Reach(egrid, WalkN, etile)) >= 2

\* the agent's tile and the four waypoints are walkable and mutually reachable
PatrolReachable ==
    /\ _is_walkable(egrid, WalkN, etile[1], etile[2])
    /\ \A i \in 1..Len(waypoints) :
          _is_walkable(egrid, WalkN, waypoints[i][1], waypoints[i][2])
    /\ \E R \in { Reach(egrid, WalkN, etile) } : \A i \in 1..Len(waypoints) : waypoints[i] \in R

\* the enemy stands on the waypoint it is heading for, the one at index i
OnWaypoint(i) == current_waypoint_index = i /\ etile = waypoints[i + 1]

\* C25: on a static maze where the enemy's tile and the four waypoints are
\* walkable and mutually reachable, an enemy moved by Enemy.update with a
\* PatrolBehavior reaches the waypoint it is heading for, and so stands on
\* every waypoint, as the current one, again and again
C25_PatrolReachesWaypoints ==
    \A i \in 0..3 :
        /\ (PatrolReachable /\ current_waypoint_index = i) ~> OnWaypoint(i)
        /\ []<>(~PatrolReachable \/ OnWaypoint(i))

\* the enemy has walked at least two steps to the waypoint at index 3 of
\* four reachable waypoints, after the three before it
C25_Witness ==
    /\ btype = "patrol"
    /\ PatrolReachable
    /\ OnWaypoint(3)
    /\ cached_path # NoPath
    /\ path_index >= 2
    /\ path_index = Len(cached_path)

====
